---- MODULE Spec2Model ----
(***************************************************************************)
(* Model of radar_cuaca_termux.py: the hourly classifiers (classify_rain_mm,*)
(* classify_sky), the deviation analysis, the risk score and the status     *)
(* rules of run_once, and the run_once loop over locations and hours.       *)
(*                                                                         *)
(* Units.  Rain amounts are integers in units of 0.0001 mm (so 0.3 mm is    *)
(* 3000 and the 0.0001 mm epsilon of the code is 1).  Temperature (deg C),  *)
(* humidity (%), probability (%), wind and gust (km/h) and UV are integers  *)
(* in their own unit.  Floating-point rounding is not modelled.             *)
(*                                                                         *)
(* JSON values.  A value read from the fetched JSON is a record             *)
(* [k, v]: k = "num" (a number v), k = "null" (JSON null, Python None) or   *)
(* k = "str" (a text float() cannot parse).                                 *)
(***************************************************************************)
EXTENDS Integers, Sequences, FiniteSets, TLC

VARIABLES
  call,        \* harness: the function applied, its arguments and its result
  pc,          \* where run_once is
  clock,       \* the wall clock, in whole hours (hour of day = clock % 24)
  TIMES,       \* the module-level list of the 24 hourly slots
  file,        \* the contents of PREV_TEMP_FILE
  PREV_TEMP,   \* the previous-temperature map of the run (insertion ordered)
  todo,        \* the locations the for loop has still to visit
  K,           \* the location being processed
  DATA,        \* its fetched hourly arrays
  ensemble,    \* [available, members] of that location
  BMK_SUM,     \* its advisory text
  ti,          \* position in TIMES of the next TIME of the inner loop
  AGG,         \* the AGG_* counters, each slot -> count
  PERKOTA,     \* the PERKOTA_* time lists, location -> list of TIMEs
  SKY_COUNT,   \* location -> sky label -> hours
  counts,      \* location -> [aman, wasp, rawan] (the locals of the loop body)
  processed_count,
  processed_locations_list,
  windows,     \* best_aman_times, any_rawan_times, ... of the combined summary
  targets,     \* the locations the arguments select (LAT / LON), in order
  fetched,     \* location -> what the network returned for it in this run
  rows,        \* the table rows printed so far, one per completed hour
  MODE,        \* "once" or "daemon"
  per_loc_struct  \* location -> the structured summary built at the end

runvars == <<pc, clock, TIMES, file, PREV_TEMP, todo, K, DATA, ensemble, BMK_SUM,
             ti, AGG, PERKOTA, SKY_COUNT, counts, processed_count,
             processed_locations_list, windows, targets, fetched, rows, MODE,
             per_loc_struct>>

vars == <<call, runvars>>

----------------------------------------------------------------------------
(* JSON / Python values *)

Num(n) == [k |-> "num", v |-> n]
NULL == [k |-> "null", v |-> 0]
BAD == [k |-> "str", v |-> 0]

\* float(x) succeeds (no TypeError / ValueError)
FloatOk(x) == x.k = "num"
\* Python truthiness of a value: None and 0 are falsy, a non-empty text is truthy
Truthy(x) == (x.k = "str") \/ (x.k = "num" /\ x.v # 0)
\* try: x = float(x or 0.0) / except: x = 0.0
FloatOr0(x) ==
  LET y == IF Truthy(x) THEN x ELSE Num(0)
  IN IF FloatOk(y) THEN y.v ELSE 0

----------------------------------------------------------------------------
(* thresholds *)

RAWAN_RAIN_MM == 60000
WASP_RAIN_MM == 20000
RAWAN_HUM == 75
ACC3_RAWAN_MM == 150000
ACC6_RAWAN_MM == 300000
WIND_WARN == 15
WIND_DANGER == 25
GUST_WARN == 30
GUST_DANGER == 45
SCORE_HUMID_TH == 80
SCORE_TEMP_LOW == 27
SCORE_TEMP_HIGH == 34
SCORE_TEMP_DROP == 2
SCORE_WIND_MIN == 10
SCORE_WIND_MAX == 25
SCORE_GUST_TH == 25
SCORE_UV_TH == 7
DEV_WARN_TH == 7000
DEV_DANGER_TH == 10000
MIN_REALRAIN == 3000
MIN_ACC3_FOR_HUJAN == 3000
MIN_ACC6_FOR_HUJAN == 6000

----------------------------------------------------------------------------
(* classifiers *)

classify_rain_mm_le1(mm) ==
  LET m == IF FloatOk(mm) THEN mm.v ELSE 0
  IN IF m <= 1 THEN "NONE"
     ELSE IF m <= 10000 THEN "GERIMIS"
     ELSE IF m < 25000 THEN "RINGAN"
     ELSE IF m < 76000 THEN "SEDANG"
     ELSE "DERAS"

classify_rain_mm(mm) ==
  LET m == IF FloatOk(mm) THEN mm.v ELSE 0
  IN IF m <= 1 THEN "NONE"
     ELSE IF m < 10000 THEN "GERIMIS"
     ELSE IF m < 25000 THEN "RINGAN"
     ELSE IF m < 76000 THEN "SEDANG"
     ELSE "DERAS"

classify_sky_prob_first(prob0, rainmm0, acc30, acc60, hum0, uv0, hour) ==
  LET rainmm == FloatOr0(rainmm0)
      acc3 == FloatOr0(acc30)
      acc6 == FloatOr0(acc60)
      prob == FloatOr0(prob0)
      hum == FloatOr0(hum0)
      uv == FloatOr0(uv0)
      ref == IF rainmm >= MIN_REALRAIN THEN rainmm
             ELSE IF acc3 >= MIN_ACC3_FOR_HUJAN THEN acc3
             ELSE IF acc6 >= MIN_ACC6_FOR_HUJAN THEN acc6
             ELSE 0
      is_day == IF hour.k = "null" THEN FALSE
                ELSE IF hour.k = "num" THEN (6 <= hour.v /\ hour.v <= 16)
                ELSE FALSE
  IN IF prob >= 60 THEN "HUJAN_POTENSIAL"
     ELSE IF ref > 1 THEN
       IF ref >= 76000 THEN "HUJAN_DERAS"
       ELSE IF ref >= 25000 THEN "HUJAN_SEDANG"
       ELSE IF ref >= 10000 THEN "HUJAN_RINGAN"
       ELSE "HUJAN_GERIMIS"
     ELSE IF is_day /\ (uv >= SCORE_UV_TH /\ hum < RAWAN_HUM) THEN "CERAH"
     ELSE IF (60 <= hum /\ hum <= 85) /\ (prob < 30) THEN "BERAWAN"
     ELSE IF (hum > RAWAN_HUM) \/ (30 <= prob /\ prob < 60) THEN "MENDUNG"
     ELSE "BERAWAN"

classify_sky(prob0, rainmm0, acc30, acc60, hum0, uv0, hour) ==
  LET rainmm == FloatOr0(rainmm0)
      acc3 == FloatOr0(acc30)
      acc6 == FloatOr0(acc60)
      prob == FloatOr0(prob0)
      hum == FloatOr0(hum0)
      uv == FloatOr0(uv0)
      ref == IF rainmm >= MIN_REALRAIN THEN rainmm
             ELSE IF acc3 >= MIN_ACC3_FOR_HUJAN THEN acc3
             ELSE IF acc6 >= MIN_ACC6_FOR_HUJAN THEN acc6
             ELSE 0
      is_day == IF hour.k = "null" THEN FALSE
                ELSE IF hour.k = "num" THEN (6 <= hour.v /\ hour.v <= 16)
                ELSE FALSE
  IN IF ref > 1 THEN
       IF ref >= 76000 THEN "HUJAN_DERAS"
       ELSE IF ref >= 25000 THEN "HUJAN_SEDANG"
       ELSE IF ref >= 10000 THEN "HUJAN_RINGAN"
       ELSE "HUJAN_GERIMIS"
     ELSE IF prob >= 60 THEN "HUJAN_POTENSIAL"
     ELSE IF is_day /\ (uv >= SCORE_UV_TH /\ hum < RAWAN_HUM) THEN "CERAH"
     ELSE IF (60 <= hum /\ hum <= 85) /\ (prob < 30) THEN "BERAWAN"
     ELSE IF (hum > RAWAN_HUM) \/ (30 <= prob /\ prob < 60) THEN "MENDUNG"
     ELSE "BERAWAN"

----------------------------------------------------------------------------
(* deviation analysis (run_once, per hour)                                  *)
(* Sequences are 1-based here: idx is the 1-based position of TIME in       *)
(* times_jq, so the code's idx + j < LEN reads idx + j <= LEN.               *)

RECURSIVE SumSeq(_)
SumSeq(s) == IF s = <<>> THEN 0 ELSE Head(s) + SumSeq(Tail(s))

Abs(d) == IF d < 0 THEN -d ELSE d

\* d * d in units of 10000 (quotient and remainder), for d >= 0: written so
\* that no intermediate value leaves 32 bits
SqQuot(d) ==
  LET a == d \div 100
      b == d % 100
  IN a * a + (200 * a * b + b * b) \div 10000
SqRem(d) ==
  LET a == d \div 100
      b == d % 100
  IN (200 * a * b + b * b) % 10000

\* statistics.pstdev(vals), kept exact as the record [n, q]: n = len(vals) and
\* q = floor(n^2 * variance / 10000), where
\* n^2 * variance = n * sum(x^2) - sum(x)^2 = the sum over pairs i < j of
\* (x_i - x_j)^2.  The value 0.0 is [n |-> 1, q |-> 0].
DevZero == [n |-> 1, q |-> 0]

pstdev_sample(vals) ==
  LET n == Len(vals)
      D == [i \in 1..n |-> [j \in 1..n |->
              IF i < j THEN Abs(vals[i] - vals[j]) ELSE 0]]
      Q == [i \in 1..n |-> SumSeq([j \in 1..n |-> SqQuot(D[i][j])])]
      R == [i \in 1..n |-> SumSeq([j \in 1..n |-> SqRem(D[i][j])])]
  IN [n |-> 1, q |-> (SumSeq(Q) + (SumSeq(R) \div 10000)) \div (n * (n - 1))]

pstdev(vals) ==
  LET n == Len(vals)
      D == [i \in 1..n |-> [j \in 1..n |->
              IF i < j THEN Abs(vals[i] - vals[j]) ELSE 0]]
      Q == [i \in 1..n |-> SumSeq([j \in 1..n |-> SqQuot(D[i][j])])]
      R == [i \in 1..n |-> SumSeq([j \in 1..n |-> SqRem(D[i][j])])]
  IN [n |-> n, q |-> SumSeq(Q) + (SumSeq(R) \div 10000)]

\* dev >= th, th a multiple of 0.01 mm
DevGE(dev, th) == dev.q >= (th \div 100) * (th \div 100) * dev.n * dev.n

\* window_vals: the values prec_arr[idx+j], j = 0,1,2, with idx+j inside the
\* time axis, that exist (no IndexError) and that float() accepts
RECURSIVE WindowVals(_, _, _, _)
WindowVals(prec_arr, idx, LEN, j) ==
  IF j > 2 THEN <<>>
  ELSE (IF idx + j <= LEN /\ idx + j <= Len(prec_arr) /\ FloatOk(prec_arr[idx + j])
        THEN <<prec_arr[idx + j].v>> ELSE <<>>)
       \o WindowVals(prec_arr, idx, LEN, j + 1)

dev_mm_of(prec_arr, idx, LEN) ==
  LET window_vals == WindowVals(prec_arr, idx, LEN, 0)
  IN IF Len(window_vals) >= 2 THEN pstdev(window_vals) ELSE DevZero

\* s: the member's sum over idx..idx+2 (float(mem[idx+j] or 0.0); the members
\* were made floats when the ensemble was read)
RECURSIVE MemberSum(_, _, _)
MemberSum(mem, idx, j) ==
  IF j > 2 THEN 0
  ELSE (IF idx + j <= Len(mem) THEN mem[idx + j] ELSE 0) + MemberSum(mem, idx, j + 1)

dev_ens_3hr_of(ensemble_available, ensemble_members, idx) ==
  IF ensemble_available /\ ensemble_members # <<>>
  THEN LET member_sums == [m \in 1..Len(ensemble_members) |->
                             MemberSum(ensemble_members[m], idx, 0)]
       IN IF Len(member_sums) >= 2 THEN pstdev(member_sums) ELSE DevZero
  ELSE DevZero

\* the two "deviasi flags" blocks: which list / global count one source adds to
DevFlag(dev) ==
  IF DevGE(dev, DEV_DANGER_TH) THEN "DANGER"
  ELSE IF DevGE(dev, DEV_WARN_TH) THEN "WARN"
  ELSE "NONE"

\* the hours appended to the warn list and to the danger list by both blocks
DevAppends_once(dev_mm, dev_ens_3hr, level) ==
  IF DevFlag(dev_mm) = level \/ DevFlag(dev_ens_3hr) = level THEN 1 ELSE 0

DevAppends(dev_mm, dev_ens_3hr, level) ==
  (IF DevFlag(dev_mm) = level THEN 1 ELSE 0)
  + (IF DevFlag(dev_ens_3hr) = level THEN 1 ELSE 0)

----------------------------------------------------------------------------
(* advisory text (BMK_SUM): a text is a sequence of one-character strings   *)

LowerOf ==
  [c \in {"A","B","C","D","E","F","G","H","I","J","K","L","M","N","O","P","Q",
          "R","S","T","U","V","W","X","Y","Z"} |->
     CASE c = "A" -> "a" [] c = "B" -> "b" [] c = "C" -> "c" [] c = "D" -> "d"
       [] c = "E" -> "e" [] c = "F" -> "f" [] c = "G" -> "g" [] c = "H" -> "h"
       [] c = "I" -> "i" [] c = "J" -> "j" [] c = "K" -> "k" [] c = "L" -> "l"
       [] c = "M" -> "m" [] c = "N" -> "n" [] c = "O" -> "o" [] c = "P" -> "p"
       [] c = "Q" -> "q" [] c = "R" -> "r" [] c = "S" -> "s" [] c = "T" -> "t"
       [] c = "U" -> "u" [] c = "V" -> "v" [] c = "W" -> "w" [] c = "X" -> "x"
       [] c = "Y" -> "y" [] c = "Z" -> "z"]

\* str.lower()
Lower(text) ==
  [i \in 1..Len(text) |-> IF text[i] \in DOMAIN LowerOf THEN LowerOf[text[i]] ELSE text[i]]

\* re.search of a literal: kw occurs somewhere in text
Contains(text, kw) ==
  \E i \in 1..(Len(text) - Len(kw) + 1) : SubSeq(text, i, i + Len(kw) - 1) = kw

\* the alternatives of the pattern
\* r"hujan sangat|hujan lebat|kilat|petir|badai|thunder|lightning"
Keywords ==
  { <<"h","u","j","a","n"," ","s","a","n","g","a","t">>,
    <<"h","u","j","a","n"," ","l","e","b","a","t">>,
    <<"k","i","l","a","t">>,
    <<"p","e","t","i","r">>,
    <<"b","a","d","a","i">>,
    <<"t","h","u","n","d","e","r">>,
    <<"l","i","g","h","t","n","i","n","g">> }

BmkgMatches_case_sensitive(bmk_sum) ==
  bmk_sum # <<>> /\ \E kw \in Keywords : Contains(bmk_sum, kw)

\* if bmk_sum: low = bmk_sum.lower(); if re.search(..., low):
BmkgMatches(bmk_sum) ==
  bmk_sum # <<>> /\ \E kw \in Keywords : Contains(Lower(bmk_sum), kw)

----------------------------------------------------------------------------
(* one hour of run_once: s is the hourly sample                             *)
(* [SUHU, HUJAN_PROB, RAINMM, LEMBAP, ANGIN, WINDGUST, UV] of JSON values   *)

\* acc3 / acc6: the sum of float(prec_arr[idx+j]), j < n, inside the time
\* axis; a value that is missing or that float() rejects is passed over
RECURSIVE AccSum(_, _, _, _)
AccSum(prec_arr, idx, LEN, n) ==
  IF n = 0 THEN 0
  ELSE AccSum(prec_arr, idx, LEN, n - 1)
       + (IF idx + n - 1 <= LEN /\ idx + n - 1 <= Len(prec_arr)
             /\ FloatOk(prec_arr[idx + n - 1])
          THEN prec_arr[idx + n - 1].v ELSE 0)

\* float(RAINMM) at "if float(RAINMM) > 0.0001" raises
CrashAtRain(s) == ~FloatOk(s.RAINMM)

\* one of the float() calls of the score block raises
CrashAtScore(s, HOUR) ==
  \/ ~FloatOk(s.LEMBAP)
  \/ ~FloatOk(s.SUHU)
  \/ ~FloatOk(s.ANGIN)
  \/ ~FloatOk(s.WINDGUST)
  \/ (8 <= HOUR /\ HOUR <= 16 /\ ~FloatOk(s.UV))
  \/ ~FloatOk(s.HUJAN_PROB)

RainCatOf(s, acc3, acc6) ==
  LET rain_ref_for_cat == IF s.RAINMM.v > 1 THEN s.RAINMM.v
                          ELSE IF acc3 > 1 THEN acc3
                          ELSE acc6
  IN classify_rain_mm(Num(rain_ref_for_cat))

RainReason(rain_cat) ==
  CASE rain_cat = "GERIMIS" -> <<"rain_gerimis">>
    [] rain_cat = "RINGAN" -> <<"rain_ringan">>
    [] rain_cat = "SEDANG" -> <<"rain_sedang">>
    [] rain_cat = "DERAS" -> <<"rain_keras">>
    [] OTHER -> <<>>

\* f"sky_{SKY_TOKEN}", SKY_TOKEN the lower-cased label
SkyReason(SKY_LABEL) ==
  CASE SKY_LABEL = "CERAH" -> "sky_cerah"
    [] SKY_LABEL = "BERAWAN" -> "sky_berawan"
    [] SKY_LABEL = "MENDUNG" -> "sky_mendung"
    [] SKY_LABEL = "HUJAN_GERIMIS" -> "sky_hujan_gerimis"
    [] SKY_LABEL = "HUJAN_RINGAN" -> "sky_hujan_ringan"
    [] SKY_LABEL = "HUJAN_SEDANG" -> "sky_hujan_sedang"
    [] SKY_LABEL = "HUJAN_DERAS" -> "sky_hujan_deras"
    [] OTHER -> "sky_hujan_potensial"

\* the score block: the contributions [p: points, r: reason] in code order.
\* prev is what lookup_prev_temp_for returned: NULL (None) or a text, which is
\* Num(t) when it reads as the number t and BAD when float() rejects it.
ScoreItems_drop_any(s, HOUR, prev) ==
  (IF s.LEMBAP.v > SCORE_HUMID_TH THEN <<[p |-> 2, r |-> "humid"]>> ELSE <<>>)
  \o (IF SCORE_TEMP_LOW <= s.SUHU.v /\ s.SUHU.v <= SCORE_TEMP_HIGH
      THEN <<[p |-> 1, r |-> "temp_ok"]>> ELSE <<>>)
  \o (IF prev # NULL /\ FloatOk(prev) /\ (prev.v - s.SUHU.v) > 0
      THEN <<[p |-> 2, r |-> "temp_drop"]>> ELSE <<>>)
  \o (IF SCORE_WIND_MIN <= s.ANGIN.v /\ s.ANGIN.v <= SCORE_WIND_MAX
      THEN <<[p |-> 1, r |-> "wind_ok"]>> ELSE <<>>)
  \o (IF s.WINDGUST.v > SCORE_GUST_TH THEN <<[p |-> 1, r |-> "gust"]>> ELSE <<>>)
  \o (IF 8 <= HOUR /\ HOUR <= 16 /\ s.UV.v >= SCORE_UV_TH
      THEN <<[p |-> 2, r |-> "uv_high"]>> ELSE <<>>)
  \o (IF s.HUJAN_PROB.v >= 70 THEN <<[p |-> 2, r |-> "prob>=70"]>>
      ELSE IF s.HUJAN_PROB.v >= 50 THEN <<[p |-> 1, r |-> "prob>=50"]>>
      ELSE <<>>)
  \o (IF s.RAINMM.v >= 10000 THEN <<[p |-> 3, r |-> "rained_now"]>>
      ELSE IF s.RAINMM.v >= 3000 THEN <<[p |-> 1, r |-> "drizzle"]>>
      ELSE <<>>)

ScoreItems(s, HOUR, prev) ==
  (IF s.LEMBAP.v > SCORE_HUMID_TH THEN <<[p |-> 2, r |-> "humid"]>> ELSE <<>>)
  \o (IF SCORE_TEMP_LOW <= s.SUHU.v /\ s.SUHU.v <= SCORE_TEMP_HIGH
      THEN <<[p |-> 1, r |-> "temp_ok"]>> ELSE <<>>)
  \o (IF prev # NULL /\ FloatOk(prev) /\ (prev.v - s.SUHU.v) >= SCORE_TEMP_DROP
      THEN <<[p |-> 2, r |-> "temp_drop"]>> ELSE <<>>)
  \o (IF SCORE_WIND_MIN <= s.ANGIN.v /\ s.ANGIN.v <= SCORE_WIND_MAX
      THEN <<[p |-> 1, r |-> "wind_ok"]>> ELSE <<>>)
  \o (IF s.WINDGUST.v > SCORE_GUST_TH THEN <<[p |-> 1, r |-> "gust"]>> ELSE <<>>)
  \o (IF 8 <= HOUR /\ HOUR <= 16 /\ s.UV.v >= SCORE_UV_TH
      THEN <<[p |-> 2, r |-> "uv_high"]>> ELSE <<>>)
  \o (IF s.HUJAN_PROB.v >= 70 THEN <<[p |-> 2, r |-> "prob>=70"]>>
      ELSE IF s.HUJAN_PROB.v >= 50 THEN <<[p |-> 1, r |-> "prob>=50"]>>
      ELSE <<>>)
  \o (IF s.RAINMM.v >= 10000 THEN <<[p |-> 3, r |-> "rained_now"]>>
      ELSE IF s.RAINMM.v >= 3000 THEN <<[p |-> 1, r |-> "drizzle"]>>
      ELSE <<>>)

InSeq(x, q) == \E i \in 1..Len(q) : q[i] = x

\* The status rules act on h = [STATUS, REASONS, thunder]; thunder counts the
\* times the hour is added to AGG_THUNDER and PERKOTA_THUNDER.
InitialStatus_gt4(score) ==
  IF score >= 7 THEN "Rawan" ELSE IF score > 4 THEN "Waspada" ELSE "Aman"

InitialStatus_carried(score) ==
  IF score >= 7 THEN "Rawan"
  ELSE IF score >= 4 \/ processed_count > 1 THEN "Waspada" ELSE "Aman"

InitialStatus(score) ==
  IF score >= 7 THEN "Rawan" ELSE IF score >= 4 THEN "Waspada" ELSE "Aman"

RuleBMKG(h, bmk_sum) ==
  IF BmkgMatches(bmk_sum)
  THEN [h EXCEPT !.STATUS = "Rawan", !.thunder = @ + 1,
                 !.REASONS = IF InSeq("BMKG_warn", @) THEN @ ELSE Append(@, "BMKG_warn")]
  ELSE h

RuleRain(h, RAINMM) ==
  IF h.STATUS # "Rawan"
  THEN IF RAINMM >= RAWAN_RAIN_MM
       THEN [h EXCEPT !.STATUS = "Rawan", !.REASONS = Append(@, "rainmm_rawan")]
       ELSE IF RAINMM >= WASP_RAIN_MM
       THEN [h EXCEPT !.STATUS = "Waspada", !.REASONS = Append(@, "rainmm_wasp")]
       ELSE h
  ELSE h

RuleAcc_unguarded(h, acc3, acc6) ==
  IF acc3 >= ACC3_RAWAN_MM \/ acc6 >= ACC6_RAWAN_MM
  THEN [h EXCEPT !.STATUS = "Waspada", !.REASONS = Append(@, "acc_rain")]
  ELSE h

RuleAcc(h, acc3, acc6) ==
  IF h.STATUS # "Rawan" /\ (acc3 >= ACC3_RAWAN_MM \/ acc6 >= ACC6_RAWAN_MM)
  THEN [h EXCEPT !.STATUS = "Waspada", !.REASONS = Append(@, "acc_rain")]
  ELSE h

RuleWind_no_danger(h, ANGIN) ==
  IF h.STATUS # "Rawan" /\ ANGIN >= WIND_WARN
  THEN [h EXCEPT !.STATUS = "Waspada", !.REASONS = Append(@, "wind_warn")]
  ELSE h

RuleWind(h, ANGIN) ==
  IF ANGIN >= WIND_DANGER
  THEN [h EXCEPT !.STATUS = "Rawan", !.REASONS = Append(@, "wind_sust_danger")]
  ELSE IF h.STATUS # "Rawan" /\ ANGIN >= WIND_WARN
  THEN [h EXCEPT !.STATUS = "Waspada", !.REASONS = Append(@, "wind_warn")]
  ELSE h

RuleGust_warn_at_31(h, WINDGUST) ==
  IF WINDGUST >= GUST_DANGER
  THEN [h EXCEPT !.STATUS = "Rawan", !.REASONS = Append(@, "gust_danger")]
  ELSE IF h.STATUS # "Rawan" /\ WINDGUST > GUST_WARN
  THEN [h EXCEPT !.STATUS = "Waspada", !.REASONS = Append(@, "gust_warn")]
  ELSE h

RuleGust(h, WINDGUST) ==
  IF WINDGUST >= GUST_DANGER
  THEN [h EXCEPT !.STATUS = "Rawan", !.REASONS = Append(@, "gust_danger")]
  ELSE IF h.STATUS # "Rawan" /\ WINDGUST >= GUST_WARN
  THEN [h EXCEPT !.STATUS = "Waspada", !.REASONS = Append(@, "gust_warn")]
  ELSE h

\* if float(HUJAN_PROB) >= 70 and float(ANGIN) >= 10
RuleThunderHeuristic(h, HUJAN_PROB, ANGIN) ==
  IF HUJAN_PROB >= 70 /\ ANGIN >= 10
  THEN [h EXCEPT !.thunder = @ + 1,
                 !.REASONS = IF InSeq("prob70_wind10", @) THEN @
                             ELSE Append(@, "prob70_wind10")]
  ELSE h

NoHour ==
  [crash |-> "rain", rain_cat |-> "NONE", SKY_LABEL |-> "", realrain |-> FALSE,
   score |-> 0, trace |-> <<>>, STATUS |-> "", REASONS |-> <<>>,
   REASONS_TRIM |-> <<>>, thunder |-> 0,
   wasp_heat |-> 0, wasp_rain |-> 0, wasp_gust |-> 0, dev_warn |-> 0,
   dev_danger |-> 0, wind_warn |-> FALSE, wind_danger |-> FALSE,
   gust_warn |-> FALSE, gust_danger |-> FALSE]

\* What the body of "for TIME in TIMES" computes for one hour that is in
\* times_jq.  crash: "rain" when float(RAINMM) raises before anything is
\* recorded, "score" when a float() of the score block raises (the rain
\* category, the sky label and the real-rain entry are recorded by then),
\* "none" when the hour completes.  trace: STATUS after the score, the
\* advisory rule, the rain rule, the accumulation rule, the wind rule and the
\* gust rule.
HourResult(s, acc3, acc6, dev_mm, dev_ens_3hr, prev, bmk_sum, HOUR) ==
  IF CrashAtRain(s) THEN NoHour
  ELSE
    LET rain_cat == RainCatOf(s, acc3, acc6)
        SKY_LABEL == classify_sky(s.HUJAN_PROB, s.RAINMM, Num(acc3), Num(acc6),
                                  s.LEMBAP, s.UV, Num(HOUR))
        realrain == s.RAINMM.v >= 3000
    IN IF CrashAtScore(s, HOUR)
       THEN [NoHour EXCEPT !.crash = "score", !.rain_cat = rain_cat,
                           !.SKY_LABEL = SKY_LABEL, !.realrain = realrain]
       ELSE
         LET items == ScoreItems(s, HOUR, prev)
             score == SumSeq([i \in 1..Len(items) |-> items[i].p])
             R0 == <<SkyReason(SKY_LABEL)>> \o RainReason(rain_cat)
                   \o [i \in 1..Len(items) |-> items[i].r]
             h0 == [STATUS |-> InitialStatus(score), REASONS |-> R0, thunder |-> 0]
             h1 == RuleBMKG(h0, bmk_sum)
             h2 == RuleRain(h1, s.RAINMM.v)
             h3 == RuleAcc(h2, acc3, acc6)
             \* try: heat / humidity side flags; float(UV) is reached only
             \* when SUHU >= 33, and its failure skips both
             side_exc == s.SUHU.v >= 33 /\ ~FloatOk(s.UV)
             heat == s.SUHU.v >= 33 /\ FloatOk(s.UV) /\ s.UV.v >= SCORE_UV_TH
             humid_rain == ~side_exc /\ s.LEMBAP.v >= RAWAN_HUM /\ s.HUJAN_PROB.v >= 30
             h4 == RuleWind(h3, s.ANGIN.v)
             h5 == RuleGust(h4, s.WINDGUST.v)
             h6 == RuleThunderHeuristic(h5, s.HUJAN_PROB.v, s.ANGIN.v)
             acc_over == acc3 >= ACC3_RAWAN_MM \/ acc6 >= ACC6_RAWAN_MM
         IN [crash |-> "none", rain_cat |-> rain_cat, SKY_LABEL |-> SKY_LABEL,
             realrain |-> realrain, score |-> score,
             trace |-> <<h0.STATUS, h1.STATUS, h2.STATUS, h3.STATUS, h4.STATUS,
                         h5.STATUS>>,
             STATUS |-> h6.STATUS, REASONS |-> h6.REASONS,
             REASONS_TRIM |-> SubSeq(R0, 1, IF Len(R0) < 2 THEN Len(R0) ELSE 2),
             thunder |-> h6.thunder,
             wasp_heat |-> IF heat THEN 1 ELSE 0,
             wasp_rain |-> (IF humid_rain THEN 1 ELSE 0)
                           + (IF s.RAINMM.v >= WASP_RAIN_MM THEN 1 ELSE 0)
                           + (IF acc_over THEN 1 ELSE 0),
             wasp_gust |-> IF s.WINDGUST.v >= GUST_WARN THEN 1 ELSE 0,
             dev_warn |-> DevAppends(dev_mm, dev_ens_3hr, "WARN"),
             dev_danger |-> DevAppends(dev_mm, dev_ens_3hr, "DANGER"),
             wind_warn |-> s.ANGIN.v >= WIND_WARN,
             wind_danger |-> s.ANGIN.v >= WIND_DANGER,
             gust_warn |-> s.WINDGUST.v >= GUST_WARN,
             gust_danger |-> s.WINDGUST.v >= GUST_DANGER]

Sample(t, p, r, h, w, g, u) ==
  [SUHU |-> t, HUJAN_PROB |-> p, RAINMM |-> r, LEMBAP |-> h, ANGIN |-> w,
   WINDGUST |-> g, UV |-> u]

TextNone == <<>>
TextCerah == <<"C","e","r","a","h"," ","B","e","r","a","w","a","n">>
TextPetir == <<"H","u","j","a","n"," ","P","E","T","I","R">>

----------------------------------------------------------------------------
(* run_once: the prior-temperature store                                    *)

\* A key of the store is a text: a location name, or the coordinates printed
\* with four decimals, here the pair of integers in units of 0.0001 degree.
NameKey(name) == [kind |-> "name", name |-> name, lat |-> 0, lon |-> 0]

\* f"{float(x):.4f}" of a coordinate given in units of 0.00001 degree
Round4(x) == (x + 5) \div 10

LatLonKey(lat, lon) ==
  [kind |-> "latlon", name |-> <<>>, lat |-> Round4(lat), lon |-> Round4(lon)]

\* k.lower(): digits and the comma of a coordinate key are unchanged
LowerKey(k) == [k EXCEPT !.name = Lower(@)]

\* A dict is the sequence of its [key, val] items in insertion order.
DictHas(d, k) == \E i \in 1..Len(d) : d[i].key = k

DictGet(d, k) == d[CHOOSE i \in 1..Len(d) : d[i].key = k].val

DictSet(d, k, v) ==
  IF DictHas(d, k)
  THEN [i \in 1..Len(d) |-> IF d[i].key = k THEN [key |-> k, val |-> v] ELSE d[i]]
  ELSE Append(d, [key |-> k, val |-> v])

RECURSIVE DictFromLines(_)
DictFromLines(lines) ==
  IF lines = <<>> THEN <<>>
  ELSE LET n == Len(lines)
       IN DictSet(DictFromLines(SubSeq(lines, 1, n - 1)), lines[n].key, lines[n].val)

\* file: [exists, lines], a line being the "key|value" the program wrote
load_prev_temp_file(f) == IF ~f.exists THEN <<>> ELSE DictFromLines(f.lines)

save_prev_temp_file(store) == [exists |-> TRUE, lines |-> store]

RECURSIVE Strip(_)
Strip(text) ==
  IF text = <<>> THEN text
  ELSE IF Head(text) = " " THEN Strip(Tail(text))
  ELSE IF text[Len(text)] = " " THEN Strip(SubSeq(text, 1, Len(text) - 1))
  ELSE text

lookup_prev_temp_for_latlon_first(name, lat, lon, prev_map) ==
  IF prev_map = <<>> THEN NULL
  ELSE
    LET key_name == NameKey(Strip(name))
        key_latlon == LatLonKey(lat, lon)
        same == {i \in 1..Len(prev_map) : LowerKey(key_name) = LowerKey(prev_map[i].key)}
    IN IF DictHas(prev_map, key_latlon) THEN DictGet(prev_map, key_latlon)
       ELSE IF DictHas(prev_map, key_name) THEN DictGet(prev_map, key_name)
       ELSE IF same # {} THEN prev_map[CHOOSE i \in same : \A j \in same : i <= j].val
       ELSE NULL

lookup_prev_temp_for(name, lat, lon, prev_map) ==
  IF prev_map = <<>> THEN NULL
  ELSE
    LET key_name == NameKey(Strip(name))
        key_latlon == LatLonKey(lat, lon)
        same == {i \in 1..Len(prev_map) : LowerKey(key_name) = LowerKey(prev_map[i].key)}
    IN IF DictHas(prev_map, key_name) THEN DictGet(prev_map, key_name)
       ELSE IF DictHas(prev_map, key_latlon) THEN DictGet(prev_map, key_latlon)
       ELSE IF same # {} THEN prev_map[CHOOSE i \in same : \A j \in same : i <= j].val
       ELSE NULL

----------------------------------------------------------------------------
(* run_once: the loop over the locations and the hours                      *)

NumSlots == 2

\* build_times_list: the slots now, now + 1h, ... as whole hours
build_times_list(now_h) == [i \in 1..NumSlots |-> now_h + i - 1]

\* int(TIME.split("T")[1][:2])
HourOf(TIME) == TIME % 24

Range(q) == {q[i] : i \in 1..Len(q)}

\* times_jq.index(TIME): the first position, 0 for ValueError
IndexOf(q, x) ==
  IF InSeq(x, q) THEN CHOOSE i \in 1..Len(q) : q[i] = x /\ \A j \in 1..(i - 1) : q[j] # x
  ELSE 0

\* arr[idx] if idx < len(arr) else 0.0
Field(arr, idx) == IF idx <= Len(arr) THEN arr[idx] ELSE Num(0)

ZeroAgg(T) ==
  LET z == [t \in Range(T) |-> 0]
  IN [AMAN |-> z, WASP |-> z, RAWAN |-> z, THUNDER |-> z, WIND_WARN |-> z,
      WIND_DANGER |-> z, GUST_WARN |-> z, GUST_DANGER |-> z, RAIN_GERIMIS |-> z,
      RAIN_RINGAN |-> z, RAIN_SEDANG |-> z, RAIN_DERAS |-> z, DEV_WARN |-> z,
      DEV_DANGER |-> z]

EmptyLists ==
  [THUNDER |-> <<>>, RAWAN |-> <<>>, WASP_RAIN |-> <<>>, WASP_HEAT |-> <<>>,
   WASP_GUST |-> <<>>, RAIN_GERIMIS |-> <<>>, RAIN_RINGAN |-> <<>>,
   RAIN_SEDANG |-> <<>>, RAIN_DERAS |-> <<>>, REALRAIN |-> <<>>,
   DEV_WARN |-> <<>>, DEV_DANGER |-> <<>>]

NoWindows ==
  [best_aman_times |-> <<>>, best_thunder_times |-> <<>>, any_rawan_times |-> <<>>,
   wind_warn_times |-> <<>>, wind_danger_times |-> <<>>, gust_warn_times |-> <<>>,
   gust_danger_times |-> <<>>, dev_warn_times |-> <<>>, dev_danger_times |-> <<>>]

\* d[k] = v of a dict kept as a function
Put(d, k, v) == [x \in DOMAIN d \cup {k} |-> IF x = k THEN v ELSE d[x]]

RECURSIVE AppendN(_, _, _)
AppendN(list, x, n) == IF n = 0 THEN list ELSE AppendN(Append(list, x), x, n - 1)

Bump(agg, TIME, n) == [agg EXCEPT ![TIME] = @ + n]

B2N(b) == IF b THEN 1 ELSE 0

\* the locations of the run: DEFAULT_LAT / DEFAULT_LON entries
Bogor == [name |-> <<"B","o","g","o","r">>, lat |-> -659710, lon |-> 10680600]
Depok == [name |-> <<"D","e","p","o","k">>, lat |-> -640250, lon |-> 10679410]
Locations == <<Bogor, Depok>>

\* locations given with --koordinat: a label that differs from "Bogor" in
\* letter case only, and a place whose coordinates print as Bogor's with four
\* decimals
BogorLower == [name |-> <<"b","o","g","o","r">>, lat |-> -623830, lon |-> 10697560]
BogorNear == [name |-> <<"K","e","b","u","n">>, lat |-> -659714, lon |-> 10680604]

TargetLists ==
  {Locations, <<Bogor, BogorLower>>, <<Bogor, BogorNear>>}

\* the row of one completed hour: what the hour read and what it computed
Row(loc, TIME, HOUR, prev, text, h) ==
  [K |-> loc.name, TIME |-> TIME, HOUR |-> HOUR, s |-> h.s, acc3 |-> h.acc3,
   acc6 |-> h.acc6, dev_mm |-> h.dev_mm, dev_ens_3hr |-> h.dev_ens_3hr,
   prev |-> prev, text |-> text, res |-> h.res]

\* what PERKOTA_RAIN_* / AGG_RAIN_* receive for an hour of category rain_cat
RainField(rain_cat) ==
  CASE rain_cat = "GERIMIS" -> "RAIN_GERIMIS"
    [] rain_cat = "RINGAN" -> "RAIN_RINGAN"
    [] rain_cat = "SEDANG" -> "RAIN_SEDANG"
    [] rain_cat = "DERAS" -> "RAIN_DERAS"
    [] OTHER -> "none"

\* the lists of location K after the part of the hour that precedes the score
ListsBeforeScore(L, TIME, res) ==
  LET L1 == IF RainField(res.rain_cat) = "none" THEN L
            ELSE [L EXCEPT ![RainField(res.rain_cat)] = Append(@, TIME)]
      entry == [time |-> TIME, rain_cat |-> res.rain_cat]
  IN IF res.realrain /\ ~InSeq(entry, L1.REALRAIN)
     THEN [L1 EXCEPT !.REALRAIN = Append(@, entry)]
     ELSE L1

AggBeforeScore(A, TIME, res) ==
  IF RainField(res.rain_cat) = "none" THEN A
  ELSE [A EXCEPT ![RainField(res.rain_cat)] = Bump(@, TIME, 1)]

\* ... and after the whole hour
ListsAfterHour(L, TIME, res) ==
  [ListsBeforeScore(L, TIME, res) EXCEPT
     !.THUNDER = AppendN(@, TIME, res.thunder),
     !.WASP_HEAT = AppendN(@, TIME, res.wasp_heat),
     !.WASP_RAIN = AppendN(@, TIME, res.wasp_rain),
     !.WASP_GUST = AppendN(@, TIME, res.wasp_gust),
     !.DEV_WARN = AppendN(@, TIME, res.dev_warn),
     !.DEV_DANGER = AppendN(@, TIME, res.dev_danger),
     !.RAWAN = AppendN(@, TIME, B2N(res.STATUS = "Rawan"))]

AggAfterHour_rawan_also_wasp(A, TIME, res) ==
  [AggBeforeScore(A, TIME, res) EXCEPT
     !.THUNDER = Bump(@, TIME, res.thunder),
     !.DEV_WARN = Bump(@, TIME, res.dev_warn),
     !.DEV_DANGER = Bump(@, TIME, res.dev_danger),
     !.AMAN = Bump(@, TIME, B2N(res.STATUS = "Aman")),
     !.WASP = Bump(@, TIME, B2N(res.STATUS \in {"Waspada", "Rawan"})),
     !.RAWAN = Bump(@, TIME, B2N(res.STATUS = "Rawan")),
     !.WIND_DANGER = Bump(@, TIME, B2N(res.wind_danger)),
     !.WIND_WARN = Bump(@, TIME, B2N(res.wind_warn)),
     !.GUST_DANGER = Bump(@, TIME, B2N(res.gust_danger)),
     !.GUST_WARN = Bump(@, TIME, B2N(res.gust_warn))]

AggAfterHour_warn_below_danger(A, TIME, res) ==
  [AggBeforeScore(A, TIME, res) EXCEPT
     !.THUNDER = Bump(@, TIME, res.thunder),
     !.DEV_WARN = Bump(@, TIME, res.dev_warn),
     !.DEV_DANGER = Bump(@, TIME, res.dev_danger),
     !.AMAN = Bump(@, TIME, B2N(res.STATUS = "Aman")),
     !.WASP = Bump(@, TIME, B2N(res.STATUS = "Waspada")),
     !.RAWAN = Bump(@, TIME, B2N(res.STATUS = "Rawan")),
     !.WIND_DANGER = Bump(@, TIME, B2N(res.wind_danger)),
     !.WIND_WARN = Bump(@, TIME, B2N(res.wind_warn /\ ~res.wind_danger)),
     !.GUST_DANGER = Bump(@, TIME, B2N(res.gust_danger)),
     !.GUST_WARN = Bump(@, TIME, B2N(res.gust_warn))]

AggAfterHour(A, TIME, res) ==
  [AggBeforeScore(A, TIME, res) EXCEPT
     !.THUNDER = Bump(@, TIME, res.thunder),
     !.DEV_WARN = Bump(@, TIME, res.dev_warn),
     !.DEV_DANGER = Bump(@, TIME, res.dev_danger),
     !.AMAN = Bump(@, TIME, B2N(res.STATUS = "Aman")),
     !.WASP = Bump(@, TIME, B2N(res.STATUS = "Waspada")),
     !.RAWAN = Bump(@, TIME, B2N(res.STATUS = "Rawan")),
     !.WIND_DANGER = Bump(@, TIME, B2N(res.wind_danger)),
     !.WIND_WARN = Bump(@, TIME, B2N(res.wind_warn)),
     !.GUST_DANGER = Bump(@, TIME, B2N(res.gust_danger)),
     !.GUST_WARN = Bump(@, TIME, B2N(res.gust_warn))]

CountsAfterHour(c, res) ==
  [aman |-> c.aman + B2N(res.STATUS = "Aman"),
   wasp |-> c.wasp + B2N(res.STATUS = "Waspada"),
   rawan |-> c.rawan + B2N(res.STATUS = "Rawan")]

\* SKY_COUNT[K][SKY_DISPLAY] = SKY_COUNT[K].get(SKY_DISPLAY, 0) + 1
SkyCounted(sc, SKY_LABEL) ==
  Put(sc, SKY_LABEL, IF SKY_LABEL \in DOMAIN sc THEN sc[SKY_LABEL] + 1 ELSE 1)

\* str(SUHU): the text float() reads back as the same number
StrOf(x) == x

HourAt_ens_acc(D, ens, idx, HOUR, prev, text) ==
  LET LEN == Len(D.time)
      s == [SUHU |-> Field(D.temperature_2m, idx),
            HUJAN_PROB |-> Field(D.precipitation_probability, idx),
            RAINMM |-> Field(D.precipitation, idx),
            LEMBAP |-> Field(D.relative_humidity_2m, idx),
            ANGIN |-> Field(D.windspeed_10m, idx),
            WINDGUST |-> Field(D.windgusts_10m, idx),
            UV |-> Field(D.uv_index, idx)]
      acc3 == AccSum(D.precipitation, idx, LEN, 3)
              + (IF ens.available THEN MemberSum(ens.members[Len(ens.members)], idx, 0)
                 ELSE 0)
      acc6 == AccSum(D.precipitation, idx, LEN, 6)
      dev_mm == dev_mm_of(D.precipitation, idx, LEN)
      dev_ens_3hr == dev_ens_3hr_of(ens.available, ens.members, idx)
  IN [s |-> s, acc3 |-> acc3, acc6 |-> acc6, dev_mm |-> dev_mm,
      dev_ens_3hr |-> dev_ens_3hr,
      res |-> HourResult(s, acc3, acc6, dev_mm, dev_ens_3hr, prev, text, HOUR)]

\* the hour at position idx of the fetched arrays, as the loop body computes it
HourAt(D, ens, idx, HOUR, prev, text) ==
  LET LEN == Len(D.time)
      s == [SUHU |-> Field(D.temperature_2m, idx),
            HUJAN_PROB |-> Field(D.precipitation_probability, idx),
            RAINMM |-> Field(D.precipitation, idx),
            LEMBAP |-> Field(D.relative_humidity_2m, idx),
            ANGIN |-> Field(D.windspeed_10m, idx),
            WINDGUST |-> Field(D.windgusts_10m, idx),
            UV |-> Field(D.uv_index, idx)]
      acc3 == AccSum(D.precipitation, idx, LEN, 3)
      acc6 == AccSum(D.precipitation, idx, LEN, 6)
      dev_mm == dev_mm_of(D.precipitation, idx, LEN)
      dev_ens_3hr == dev_ens_3hr_of(ens.available, ens.members, idx)
  IN [s |-> s, acc3 |-> acc3, acc6 |-> acc6, dev_mm |-> dev_mm,
      dev_ens_3hr |-> dev_ens_3hr,
      res |-> HourResult(s, acc3, acc6, dev_mm, dev_ens_3hr, prev, text, HOUR)]

AmanThreshold_floor(n) == (800 * n) \div 1000

\* int(processed_count * THRESH_PCT + 0.999), THRESH_PCT = 0.8
AmanThreshold(n) == (800 * n + 999) \div 1000

RECURSIVE Filter(_, _, _)
Filter(T, agg, min) ==
  IF T = <<>> THEN <<>>
  ELSE (IF agg[Head(T)] >= min THEN <<Head(T)>> ELSE <<>>) \o Filter(Tail(T), agg, min)

WindowsOf_rawan_once(T, A, n) ==
  [best_aman_times |-> IF n > 0 THEN Filter(T, A.AMAN, AmanThreshold(n)) ELSE <<>>,
   best_thunder_times |-> Filter(T, A.THUNDER, 1),
   any_rawan_times |-> Filter(T, A.RAWAN, 1),
   wind_warn_times |-> Filter(T, A.WIND_WARN, 1),
   wind_danger_times |-> Filter(T, A.WIND_DANGER, 1),
   gust_warn_times |-> Filter(T, A.GUST_WARN, 1),
   gust_danger_times |-> Filter(T, A.GUST_DANGER, 1),
   dev_warn_times |-> Filter(T, A.DEV_WARN, 1),
   dev_danger_times |-> Filter(T, A.DEV_DANGER, 1)]

WindowsOf(T, A, n) ==
  [best_aman_times |-> IF n > 0 THEN Filter(T, A.AMAN, AmanThreshold(n)) ELSE <<>>,
   best_thunder_times |-> Filter(T, A.THUNDER, 1),
   any_rawan_times |-> Filter(T, A.RAWAN, 2),
   wind_warn_times |-> Filter(T, A.WIND_WARN, 1),
   wind_danger_times |-> Filter(T, A.WIND_DANGER, 1),
   gust_warn_times |-> Filter(T, A.GUST_WARN, 1),
   gust_danger_times |-> Filter(T, A.GUST_DANGER, 1),
   dev_warn_times |-> Filter(T, A.DEV_WARN, 1),
   dev_danger_times |-> Filter(T, A.DEV_DANGER, 1)]

----------------------------------------------------------------------------
(* The inputs of a run: the clock, the store file, and per location the     *)
(* forecast, the ensemble and the advisory text the network returns.        *)

\* hourly samples: a quiet hour, a storm hour, an hour whose precipitation is
\* null and an hour whose humidity is null
Calm == Sample(Num(25), Num(10), Num(0), Num(60), Num(5), Num(8), Num(2))
Storm == Sample(Num(28), Num(80), Num(65000), Num(90), Num(26), Num(46), Num(0))
NullRain == [Calm EXCEPT !.RAINMM = NULL]
NullHum == [Storm EXCEPT !.LEMBAP = NULL]
\* a humid hour without rain: score 2, and 4 with a temperature drop
Humid == [Calm EXCEPT !.LEMBAP = Num(85)]
\* hours at the warning levels: sustained wind of WIND_WARN, gust of GUST_WARN
Breezy == [Calm EXCEPT !.ANGIN = Num(15)]
Gusty == [Calm EXCEPT !.WINDGUST = Num(30)]
\* the hourly object of the response: the time axis tq and one sample per
\* entry; nprec is the length of the precipitation array
Hourly(tq, profs, nprec) ==
  [time |-> tq,
   temperature_2m |-> [i \in 1..Len(tq) |-> profs[i].SUHU],
   precipitation_probability |-> [i \in 1..Len(tq) |-> profs[i].HUJAN_PROB],
   precipitation |-> [i \in 1..nprec |-> profs[i].RAINMM],
   relative_humidity_2m |-> [i \in 1..Len(tq) |-> profs[i].LEMBAP],
   windspeed_10m |-> [i \in 1..Len(tq) |-> profs[i].ANGIN],
   windgusts_10m |-> [i \in 1..Len(tq) |-> profs[i].WINDGUST],
   uv_index |-> [i \in 1..Len(tq) |-> profs[i].UV]]

\* the responses: every mix of quiet and storm hours over the slots; one null
\* field among quiet or storm hours; a time axis that stops one hour short of
\* the last slot; a precipitation array one entry shorter than the time axis;
\* humid hours; a windy hour followed by gusty hours
Responses(T) ==
  LET n == Len(T)
  IN {Hourly(T, profs, n) : profs \in [1..n -> {Calm, Storm}]}
     \cup {Hourly(T, [i \in 1..n |-> IF i = k THEN NullRain ELSE Calm], n) : k \in {1, n}}
     \cup {Hourly(T, [i \in 1..n |-> IF i = k THEN NullHum ELSE Storm], n) : k \in {1, n}}
     \cup {Hourly(SubSeq(T, 1, n - 1), [i \in 1..(n - 1) |-> Storm], n - 1),
           Hourly(T, [i \in 1..n |-> Storm], n - 1),
           Hourly(T, [i \in 1..n |-> Humid], n),
           Hourly(T, [i \in 1..n |-> IF i = 1 THEN Breezy ELSE Gusty], n)}


NoEnsemble == [available |-> FALSE, members |-> <<>>]
Ensembles ==
  {NoEnsemble, [available |-> TRUE, members |-> <<<<0, 0, 0>>, <<14000, 0, 0>>>>]}

Texts == {TextNone, TextCerah, TextPetir}

\* what the ensemble fetch and the advisory fetch of one location return
SideFetches ==
  {<<e, text>> : e \in Ensembles, text \in Texts}
    \ ({<<NoEnsemble, TextCerah>>} \cup {<<e, TextNone>> : e \in Ensembles \ {NoEnsemble}})

StoreFiles ==
  {[exists |-> FALSE, lines |-> <<>>],
   [exists |-> TRUE,
    lines |-> <<[key |-> NameKey(Bogor.name), val |-> Num(35)],
                [key |-> NameKey(Lower(Depok.name)), val |-> Num(27)]>>]}

ClockStarts == {16}

\* the state of the program when nothing of run_once has happened yet
RunInit(mode, f, now_h, locs) ==
  /\ pc = "start"
  /\ MODE = mode
  /\ per_loc_struct = << >>
  /\ targets = locs
  /\ fetched = << >>
  /\ rows = <<>>
  /\ clock = now_h
  /\ TIMES = build_times_list(now_h)
  /\ file = f
  /\ PREV_TEMP = <<>>
  /\ todo = <<>>
  /\ K = NULL
  /\ DATA = NULL
  /\ ensemble = NoEnsemble
  /\ BMK_SUM = <<>>
  /\ ti = 0
  /\ AGG = ZeroAgg(<<>>)
  /\ PERKOTA = << >>
  /\ SKY_COUNT = << >>
  /\ counts = << >>
  /\ processed_count = 0
  /\ processed_locations_list = <<>>
  /\ windows = NoWindows

Idle == [fn |-> "none", args |-> <<>>, ret |-> "", done |-> TRUE]

Init ==
  /\ call = Idle
  /\ \/ \E f \in StoreFiles, now_h \in ClockStarts, locs \in TargetLists :
          RunInit("once", f, now_h, locs)
     \/ \E now_h \in ClockStarts :
          RunInit("daemon", [exists |-> FALSE, lines |-> <<>>], now_h, <<Bogor>>)

\* run_once up to the loop over the locations
Start ==
  /\ pc = "start"
  /\ PREV_TEMP' = load_prev_temp_file(file)
  /\ todo' = targets
  /\ fetched' = << >>
  /\ rows' = <<>>
  /\ AGG' = ZeroAgg(TIMES)
  /\ PERKOTA' = << >>
  /\ SKY_COUNT' = << >>
  /\ counts' = << >>
  /\ processed_count' = 0
  /\ processed_locations_list' = <<>>
  /\ windows' = NoWindows
  /\ per_loc_struct' = << >>
  /\ pc' = "locations"
  /\ UNCHANGED <<call, MODE, clock, TIMES, file, K, DATA, ensemble, BMK_SUM, ti, targets>>

FetchFails_counted ==
  /\ pc = "locations" /\ todo # <<>>
  /\ todo' = Tail(todo)
  /\ processed_count' = processed_count + 1
  /\ UNCHANGED <<call, MODE, per_loc_struct, pc, clock, TIMES, file, PREV_TEMP, K, DATA, ensemble,
                 BMK_SUM, ti, AGG, PERKOTA, SKY_COUNT, counts,
                 processed_locations_list, windows, targets, fetched, rows>>

\* DATA is None: the location is skipped
FetchFails ==
  /\ pc = "locations" /\ todo # <<>>
  /\ todo' = Tail(todo)
  /\ UNCHANGED <<call, MODE, per_loc_struct, pc, clock, TIMES, file, PREV_TEMP, K, DATA, ensemble,
                 BMK_SUM, ti, AGG, PERKOTA, SKY_COUNT, counts, processed_count,
                 processed_locations_list, windows, targets, fetched, rows>>

\* the forecast arrives: the ensemble and the advisory text are fetched and
\* the per-location state is initialised
Fetch ==
  /\ pc = "locations" /\ todo # <<>>
  /\ \E D \in Responses(TIMES), side \in SideFetches :
       /\ DATA' = D
       /\ ensemble' = side[1]
       /\ BMK_SUM' = side[2]
       /\ fetched' = Put(fetched, Head(todo).name,
                         [DATA |-> D, ensemble |-> side[1], BMK_SUM |-> side[2]])
  /\ K' = Head(todo)
  /\ todo' = Tail(todo)
  /\ processed_count' = processed_count + 1
  /\ processed_locations_list' = Append(processed_locations_list, Head(todo).name)
  /\ PERKOTA' = Put(PERKOTA, Head(todo).name, EmptyLists)
  /\ SKY_COUNT' = Put(SKY_COUNT, Head(todo).name, << >>)
  /\ counts' = Put(counts, Head(todo).name, [aman |-> 0, wasp |-> 0, rawan |-> 0])
  /\ ti' = 1
  /\ pc' = "hours"
  /\ UNCHANGED <<call, MODE, per_loc_struct, clock, TIMES, file, PREV_TEMP, AGG, windows, targets, rows>>

\* "except ValueError: continue": TIME is not on the time axis of the response
SkipHour ==
  /\ pc = "hours" /\ ti <= Len(TIMES)
  /\ IndexOf(DATA.time, TIMES[ti]) = 0
  /\ ti' = ti + 1
  /\ UNCHANGED <<call, MODE, per_loc_struct, pc, clock, TIMES, file, PREV_TEMP, todo, K, DATA, ensemble,
                 BMK_SUM, AGG, PERKOTA, SKY_COUNT, counts, processed_count,
                 processed_locations_list, windows, targets, fetched, rows>>

ProcessHour_name_only ==
  /\ pc = "hours" /\ ti <= Len(TIMES)
  /\ IndexOf(DATA.time, TIMES[ti]) # 0
  /\ LET TIME == TIMES[ti]
         prev == lookup_prev_temp_for(K.name, K.lat, K.lon, PREV_TEMP)
     IN \E h \in {HourAt(DATA, ensemble, IndexOf(DATA.time, TIME), HourOf(TIME), prev,
                         BMK_SUM)} :
        /\ h.res.crash = "none"
        /\ PERKOTA' = [PERKOTA EXCEPT ![K.name] = ListsAfterHour(@, TIME, h.res)]
        /\ AGG' = AggAfterHour(AGG, TIME, h.res)
        /\ SKY_COUNT' = [SKY_COUNT EXCEPT ![K.name] = SkyCounted(@, h.res.SKY_LABEL)]
        /\ counts' = [counts EXCEPT ![K.name] = CountsAfterHour(@, h.res)]
        /\ PREV_TEMP' = DictSet(PREV_TEMP, NameKey(K.name), StrOf(h.s.SUHU))
        /\ rows' = Append(rows, Row(K, TIME, HourOf(TIME), prev, BMK_SUM, h))
  /\ ti' = ti + 1
  /\ UNCHANGED <<call, MODE, per_loc_struct, pc, clock, TIMES, file, todo, K, DATA, ensemble, BMK_SUM,
                 processed_count, processed_locations_list, windows, targets,
                 fetched>>

\* one pass of the body of "for TIME in TIMES" that runs to its end
ProcessHour ==
  /\ pc = "hours" /\ ti <= Len(TIMES)
  /\ IndexOf(DATA.time, TIMES[ti]) # 0
  /\ LET TIME == TIMES[ti]
         prev == lookup_prev_temp_for(K.name, K.lat, K.lon, PREV_TEMP)
     IN \E h \in {HourAt(DATA, ensemble, IndexOf(DATA.time, TIME), HourOf(TIME), prev,
                         BMK_SUM)} :
        /\ h.res.crash = "none"
        /\ PERKOTA' = [PERKOTA EXCEPT ![K.name] = ListsAfterHour(@, TIME, h.res)]
        /\ AGG' = AggAfterHour(AGG, TIME, h.res)
        /\ SKY_COUNT' = [SKY_COUNT EXCEPT ![K.name] = SkyCounted(@, h.res.SKY_LABEL)]
        /\ counts' = [counts EXCEPT ![K.name] = CountsAfterHour(@, h.res)]
        /\ PREV_TEMP' = DictSet(DictSet(PREV_TEMP, NameKey(K.name), StrOf(h.s.SUHU)),
                                LatLonKey(K.lat, K.lon), StrOf(h.s.SUHU))
        /\ rows' = Append(rows, Row(K, TIME, HourOf(TIME), prev, BMK_SUM, h))
  /\ ti' = ti + 1
  /\ UNCHANGED <<call, MODE, per_loc_struct, pc, clock, TIMES, file, todo, K, DATA, ensemble, BMK_SUM,
                 processed_count, processed_locations_list, windows, targets,
                 fetched>>

\* a float() of the body raises: nothing catches it in run_once or main_loop,
\* the process ends with what the hour had recorded by then
HourRaises ==
  /\ pc = "hours" /\ ti <= Len(TIMES)
  /\ IndexOf(DATA.time, TIMES[ti]) # 0
  /\ LET TIME == TIMES[ti]
         prev == lookup_prev_temp_for(K.name, K.lat, K.lon, PREV_TEMP)
     IN \E h \in {HourAt(DATA, ensemble, IndexOf(DATA.time, TIME), HourOf(TIME), prev,
                         BMK_SUM)} :
        /\ h.res.crash # "none"
        /\ PERKOTA' = IF h.res.crash = "rain" THEN PERKOTA
                      ELSE [PERKOTA EXCEPT ![K.name] = ListsBeforeScore(@, TIME, h.res)]
        /\ AGG' = IF h.res.crash = "rain" THEN AGG
                  ELSE AggBeforeScore(AGG, TIME, h.res)
        /\ SKY_COUNT' = IF h.res.crash = "rain" THEN SKY_COUNT
                        ELSE [SKY_COUNT EXCEPT ![K.name] = SkyCounted(@, h.res.SKY_LABEL)]
  /\ pc' = "raised"
  /\ UNCHANGED <<call, MODE, per_loc_struct, clock, TIMES, file, PREV_TEMP, todo, K, DATA, ensemble,
                 BMK_SUM, ti, counts, processed_count, processed_locations_list,
                 windows, targets, fetched, rows>>

\* the inner loop is over: the per-location summary is printed
EndLocation ==
  /\ pc = "hours" /\ ti > Len(TIMES)
  /\ pc' = "locations"
  /\ UNCHANGED <<call, MODE, per_loc_struct, clock, TIMES, file, PREV_TEMP, todo, K, DATA, ensemble,
                 BMK_SUM, ti, AGG, PERKOTA, SKY_COUNT, counts, processed_count,
                 processed_locations_list, windows, targets, fetched, rows>>

\* TIME.replace("T", " "): the date, a blank and the hour, as words of a text
Blank == [kind |-> "blank", v |-> 0]

Stamp(TIME) ==
  <<[kind |-> "date", v |-> TIME \div 24], Blank, [kind |-> "clock", v |-> TIME % 24]>>

\* the text a PERKOTA_* accumulator holds after the TIMEs of list were added:
\* (old + " " + stamp).strip() if old else stamp
RECURSIVE Accumulated(_)
Accumulated(list) ==
  IF list = <<>> THEN <<>>
  ELSE IF Len(list) = 1 THEN Stamp(list[1])
  ELSE Accumulated(SubSeq(list, 1, Len(list) - 1)) \o <<Blank>> \o Stamp(list[Len(list)])

IsWord(x) == x # Blank

\* text.split() if text else []: the words between the blanks
Split(text) == SelectSeq(text, IsWord)

Count(T, w) == Cardinality({i \in 1..Len(T) : InSeq(T[i], w)})

\* per_loc_struct[K], the fields built from the accumulators and the windows
LocStruct(L, w, T) ==
  [thunder_times |-> Split(Accumulated(L.THUNDER)),
   wasp_rain_times |-> Split(Accumulated(L.WASP_RAIN)),
   wasp_heat_times |-> Split(Accumulated(L.WASP_HEAT)),
   wasp_gust_times |-> Split(Accumulated(L.WASP_GUST)),
   rawan_times |-> Split(Accumulated(L.RAWAN)),
   dev_times |-> Split(Accumulated(L.DEV_WARN)) \o Split(Accumulated(L.DEV_DANGER)),
   hours_aman_count |-> Count(T, w.best_aman_times),
   hours_rawan_count |-> Count(T, w.any_rawan_times)]

Finish_unswallowed ==
  /\ pc = "locations" /\ todo = <<>>
  /\ \E written \in BOOLEAN :
       /\ file' = IF written THEN save_prev_temp_file(PREV_TEMP) ELSE file
       /\ windows' = IF written THEN WindowsOf(TIMES, AGG, processed_count) ELSE windows
       /\ per_loc_struct' =
            IF written
            THEN [n \in Range(processed_locations_list) |->
                    LocStruct(PERKOTA[n], WindowsOf(TIMES, AGG, processed_count), TIMES)]
            ELSE per_loc_struct
  /\ pc' = "done"
  /\ UNCHANGED <<call, MODE, clock, TIMES, PREV_TEMP, todo, K, DATA, ensemble, BMK_SUM,
                 ti, AGG, PERKOTA, SKY_COUNT, counts, processed_count,
                 processed_locations_list, targets, fetched, rows>>

\* after the last location: save_prev_temp_file, whose write may fail and is
\* then passed over, and the combined summary
Finish ==
  /\ pc = "locations" /\ todo = <<>>
  /\ \E written \in BOOLEAN :
       file' = IF written THEN save_prev_temp_file(PREV_TEMP) ELSE file
  /\ windows' = WindowsOf(TIMES, AGG, processed_count)
  /\ per_loc_struct' =
       [n \in Range(processed_locations_list) |->
          LocStruct(PERKOTA[n], WindowsOf(TIMES, AGG, processed_count), TIMES)]
  /\ pc' = "done"
  /\ UNCHANGED <<call, MODE, clock, TIMES, PREV_TEMP, todo, K, DATA, ensemble, BMK_SUM,
                 ti, AGG, PERKOTA, SKY_COUNT, counts, processed_count,
                 processed_locations_list, targets, fetched, rows>>

MaxSleepHours == 1

\* daemon mode: time.sleep(REFRESH_INTERVAL), then run_once again; the wall
\* clock may have passed into a later hour, up to MaxSleepHours after the hour
\* at which the module was loaded (the first slot of TIMES)
Sleep ==
  /\ pc = "done" /\ MODE = "daemon"
  /\ \E d \in 0..1 :
       /\ clock + d <= TIMES[1] + MaxSleepHours
       /\ clock' = clock + d
  /\ pc' = "start"
  /\ PREV_TEMP' = <<>> /\ todo' = <<>> /\ K' = NULL /\ DATA' = NULL
  /\ ensemble' = NoEnsemble /\ BMK_SUM' = <<>> /\ ti' = 0
  /\ AGG' = ZeroAgg(<<>>) /\ PERKOTA' = << >> /\ SKY_COUNT' = << >>
  /\ counts' = << >> /\ processed_count' = 0 /\ processed_locations_list' = <<>>
  /\ windows' = NoWindows /\ per_loc_struct' = << >>
  /\ fetched' = << >> /\ rows' = <<>>
  /\ UNCHANGED <<call, MODE, TIMES, file, targets>>

Next ==
  \/ Start
  \/ FetchFails
  \/ Fetch
  \/ SkipHour
  \/ ProcessHour
  \/ HourRaises
  \/ EndLocation
  \/ Finish
  \/ Sleep

Spec == Init /\ [][Next]_vars

\* the run variables of a specification that only applies a pure function
RunOff == RunInit("once", [exists |-> FALSE, lines |-> <<>>], 0, <<>>)

----------------------------------------------------------------------------
(* Harness for the pure classifiers: Init draws the arguments, the action   *)
(* applies the function and records what it returns.                        *)

MaxRainSteps == 45

RainArgs ==
  {Num(n) : n \in {-1, 0, 1, 2, 9999, 10000, 10001, 24999, 25000, 25001,
                   75999, 76000, 76001}}
  \cup {Num(i * 2000) : i \in 0..MaxRainSteps}
  \cup {NULL, BAD}

InitRain ==
  /\ \E mm \in RainArgs :
       call = [fn |-> "classify_rain_mm", args |-> <<mm>>, ret |-> "", done |-> FALSE]
  /\ RunOff

CallRain ==
  /\ call.fn = "classify_rain_mm" /\ ~call.done
  /\ call' = [call EXCEPT !.ret = classify_rain_mm(call.args[1]), !.done = TRUE]
  /\ UNCHANGED runvars

SpecRain == InitRain /\ [][CallRain]_vars

SkyProb == {Num(0), Num(29), Num(30), Num(59), Num(60), NULL}
SkyRain == {Num(0), Num(1), Num(2999), Num(3000), Num(9999), Num(10000),
            Num(24999), Num(25000), Num(75999), Num(76000), NULL}
SkyAcc3 == {Num(0), Num(2999), Num(3000), Num(25000)}
SkyAcc6 == {Num(0), Num(5999), Num(6000), Num(76000)}
SkyHum == {Num(59), Num(60), Num(74), Num(75), Num(76), Num(85), Num(86)}
SkyUv == {Num(6), Num(7), NULL}
SkyHour == {NULL, Num(5), Num(6), Num(16), Num(17)}

InitSky ==
  /\ \E p \in SkyProb, r \in SkyRain, a3 \in SkyAcc3, a6 \in SkyAcc6,
        h \in SkyHum, u \in SkyUv, hr \in SkyHour :
       call = [fn |-> "classify_sky", args |-> <<p, r, a3, a6, h, u, hr>>,
               ret |-> "", done |-> FALSE]
  /\ RunOff

CallSky ==
  /\ call.fn = "classify_sky" /\ ~call.done
  /\ call' = [call EXCEPT
       !.ret = classify_sky(call.args[1], call.args[2], call.args[3],
                            call.args[4], call.args[5], call.args[6],
                            call.args[7]),
       !.done = TRUE]
  /\ UNCHANGED runvars

SpecSky == InitSky /\ [][CallSky]_vars

MaxLen == 3
MaxMembers == 2

RECURSIVE SeqsUpTo(_, _)
SeqsUpTo(S, n) ==
  IF n = 0 THEN {<<>>}
  ELSE LET prev == SeqsUpTo(S, n - 1)
       IN prev \cup {Append(q, x) : q \in {p \in prev : Len(p) = n - 1}, x \in S}

DevVals == {Num(0), Num(14000), Num(60000), NULL}
DevMembers == {<<0>>, <<14000>>, <<0, 0, 20000>>}

InitDev ==
  /\ RunOff
  /\ \E prec_arr \in SeqsUpTo(DevVals, MaxLen) \ {<<>>},
     ensemble_members \in SeqsUpTo(DevMembers, MaxMembers),
     ensemble_available \in BOOLEAN, extra \in 0..1 :
    \E idx \in 1..Len(prec_arr) :
      call = [fn |-> "deviation",
              args |-> <<prec_arr, idx, Len(prec_arr) + extra,
                         ensemble_available, ensemble_members>>,
              ret |-> "", done |-> FALSE]

CallDev ==
  /\ call.fn = "deviation" /\ ~call.done
  /\ LET dev_mm == dev_mm_of(call.args[1], call.args[2], call.args[3])
         dev_ens_3hr == dev_ens_3hr_of(call.args[4], call.args[5], call.args[2])
     IN call' = [call EXCEPT
          !.ret = [det |-> DevFlag(dev_mm), ens |-> DevFlag(dev_ens_3hr),
                   warn |-> DevAppends(dev_mm, dev_ens_3hr, "WARN"),
                   danger |-> DevAppends(dev_mm, dev_ens_3hr, "DANGER")],
          !.done = TRUE]
  /\ UNCHANGED runvars

SpecDev == InitDev /\ [][CallDev]_vars

\* the arguments <<s, acc3, acc6, prev, BMK_SUM, HOUR>> of one hour:
\* few score-only values, the boundary values of everything a status rule reads
HourStatusArgs ==
  { <<Sample(Num(t), Num(p), Num(r), Num(h), Num(w), Num(g), Num(3)),
      IF a[1] < r THEN r ELSE a[1], IF a[2] < r THEN r ELSE a[2], NULL, txt, 10>> :
      t \in {20, 30}, p \in {40, 70}, h \in {50, 85},
      r \in {0, 2999, 3000, 9999, 10000, 19999, 20000, 59999, 60000},
      w \in {9, 10, 14, 15, 25, 26}, g \in {25, 26, 29, 30, 44, 45},
      a \in {<<0, 0>>, <<149999, 149999>>, <<150000, 150000>>,
             <<149999, 299999>>, <<149999, 300000>>},
      txt \in {TextNone, TextCerah, TextPetir} }

\* the boundary values of everything the score reads
HourScoreArgs ==
  { <<Sample(Num(t), Num(p), Num(r), Num(h), Num(w), Num(g), u), r, r, pv,
      TextNone, hr>> :
      t \in {26, 27, 34, 35}, p \in {49, 50, 69, 70}, h \in {80, 81},
      u \in {Num(6), Num(7), NULL}, r \in {2999, 3000, 9999, 10000},
      w \in {9, 10, 25, 26}, g \in {25, 26},
      pv \in {NULL, Num(28), Num(36), BAD}, hr \in {7, 8, 16, 17} }

\* humidity 85, temperature 30, wind 20, gust 10, UV 3, hour 10, prob 40,
\* rain 0, no advisory text, no prior temperature
HourExampleArgs ==
  <<Sample(Num(30), Num(40), Num(0), Num(85), Num(20), Num(10), Num(3)), 0, 0,
    NULL, TextNone, 10>>

InitHour ==
  /\ \E a \in HourStatusArgs \cup HourScoreArgs \cup {HourExampleArgs} :
       call = [fn |-> "hour", args |-> a, ret |-> "", done |-> FALSE]
  /\ RunOff

CallHour ==
  /\ call.fn = "hour" /\ ~call.done
  /\ call' = [call EXCEPT
       !.ret = HourResult(call.args[1], call.args[2], call.args[3], DevZero,
                          DevZero, call.args[4], call.args[5], call.args[6]),
       !.done = TRUE]
  /\ UNCHANGED runvars

SpecHour == InitHour /\ [][CallHour]_vars

MaxN == 6

\* the counters at the end of a run over n fetched locations: at slot t,
\* m[t] of them do not have the slot, a[t] are Aman and the others Rawan
WinSlots == <<16, 17>>

WinAgg(a, m, n) ==
  [ZeroAgg(WinSlots) EXCEPT
     !.AMAN = a, !.RAWAN = [t \in Range(WinSlots) |-> n - m[t] - a[t]]]

InitWin ==
  /\ \E n \in 0..MaxN :
       \E a \in [Range(WinSlots) -> 0..n], m \in [Range(WinSlots) -> 0..1] :
         /\ \A t \in Range(WinSlots) : a[t] + m[t] <= n
         /\ call = [fn |-> "windows", args |-> <<WinSlots, WinAgg(a, m, n), n>>,
                    ret |-> "", done |-> FALSE]
  /\ RunOff

CallWin ==
  /\ call.fn = "windows" /\ ~call.done
  /\ call' = [call EXCEPT
       !.ret = WindowsOf(call.args[1], call.args[2], call.args[3]),
       !.done = TRUE]
  /\ UNCHANGED runvars

SpecWin == InitWin /\ [][CallWin]_vars

MaxItems == 3

\* the keys a store can hold for the lookups below, each with a value of its
\* own: labels that differ in letter case, and coordinate keys
LookupKeys ==
  <<NameKey(Bogor.name), NameKey(BogorLower.name), NameKey(<<"B","O","G","O","R">>),
    LatLonKey(Bogor.lat, Bogor.lon), LatLonKey(Depok.lat, Depok.lon)>>

LookupMaps ==
  {[i \in 1..Len(q) |-> [key |-> LookupKeys[q[i]], val |-> Num(20 + q[i])]] :
     q \in {p \in SeqsUpTo(1..Len(LookupKeys), MaxItems) :
              \A i, j \in 1..Len(p) : i # j => p[i] # p[j]}}

\* the name argument: as stored, padded with blanks, in another case, unknown
LookupNames ==
  {Bogor.name, <<" ">> \o Bogor.name \o <<" ">>, BogorLower.name, Depok.name}

LookupPlaces == {Bogor, BogorNear, BogorLower}

InitLookup ==
  /\ \E name \in LookupNames, at \in LookupPlaces, prev_map \in LookupMaps :
       call = [fn |-> "lookup_prev_temp_for",
               args |-> <<name, at.lat, at.lon, prev_map>>, ret |-> "", done |-> FALSE]
  /\ RunOff

CallLookup ==
  /\ call.fn = "lookup_prev_temp_for" /\ ~call.done
  /\ call' = [call EXCEPT
       !.ret = lookup_prev_temp_for(call.args[1], call.args[2], call.args[3],
                                    call.args[4]),
       !.done = TRUE]
  /\ UNCHANGED runvars

SpecLookup == InitLookup /\ [][CallLookup]_vars

\* deviations below, at and above the two thresholds
DevSamples == {[n |-> 1, q |-> x] : x \in {0, 4899, 4900, 9999, 10000}}

RecordSamples == {Calm, Humid, Storm}

InitRecord ==
  /\ \E s \in RecordSamples, dev_mm \in DevSamples, dev_ens_3hr \in DevSamples :
       call = [fn |-> "record_hour", args |-> <<s, dev_mm, dev_ens_3hr>>,
               ret |-> "", done |-> FALSE]
  /\ RunOff

\* the body of the hour loop for the first hour of the first location: what
\* the hour adds to the counters and to the lists of the location
CallRecord ==
  /\ call.fn = "record_hour" /\ ~call.done
  /\ LET s == call.args[1]
         TIME == WinSlots[1]
         res == HourResult(s, s.RAINMM.v, s.RAINMM.v, call.args[2], call.args[3],
                           NULL, <<>>, HourOf(TIME))
     IN call' = [call EXCEPT
          !.ret = [res |-> res,
                   AGG |-> AggAfterHour(ZeroAgg(WinSlots), TIME, res),
                   L |-> ListsAfterHour(EmptyLists, TIME, res)],
          !.done = TRUE]
  /\ UNCHANGED runvars

SpecRecord == InitRecord /\ [][CallRecord]_vars

----------------------------------------------------------------------------
(* The store file as text: a line is a sequence of characters.              *)

\* the position of the first sep in text, 0 if there is none
FirstAt(text, sep) ==
  IF \E i \in 1..Len(text) : text[i] \in sep
  THEN CHOOSE i \in 1..Len(text) : text[i] \in sep /\ \A j \in 1..(i - 1) : text[j] \notin sep
  ELSE 0

\* f.write(f"{k}|{v}\n") for every item of the store, in its order
save_prev_temp_text(store) ==
  [exists |-> TRUE,
   lines |-> [i \in 1..Len(store) |-> store[i].key \o <<"|">> \o store[i].val]]

\* data after the line has been read
LoadLine(data, line, sep) ==
  LET l == Strip(line)
      at == FirstAt(l, sep)
      key == Strip(SubSeq(l, 1, at - 1))
      val == Strip(SubSeq(l, at + 1, Len(l)))
  IN IF l = <<>> \/ at = 0 \/ key = <<>> \/ val = <<>> THEN data
     ELSE DictSet(data, key, val)

RECURSIVE LoadLines(_, _)
LoadLines(lines, sep) ==
  IF lines = <<>> THEN <<>>
  ELSE LoadLine(LoadLines(SubSeq(lines, 1, Len(lines) - 1), sep), lines[Len(lines)], sep)

load_prev_temp_text_any_sep(f) == IF ~f.exists THEN <<>> ELSE LoadLines(f.lines, {"|", ","})

load_prev_temp_text(f) == IF ~f.exists THEN <<>> ELSE LoadLines(f.lines, {"|"})

\* keys of the store: location names, one with a blank inside and one padded,
\* and coordinate keys; values: temperature texts
StoreKeyTexts ==
  <<<<"A">>, <<"a">>, <<"A", " ", "b">>, <<" ", "A">>, <<"-", "6", ",", "1">>,
    <<"-", "6", ",", "2">>>>

StoreValTexts == {<<"2">>, <<"2", "5", ".", "5">>}

StoreMaps ==
  UNION {{[i \in 1..Len(q) |-> [key |-> StoreKeyTexts[q[i]], val |-> vs[i]]] :
            vs \in [1..Len(q) -> StoreValTexts]} :
         q \in {p \in SeqsUpTo(1..Len(StoreKeyTexts), MaxItems) :
                  \A i, j \in 1..Len(p) : i # j => p[i] # p[j]}}

\* lines a store file can hold: well-formed ones, padded ones, a second "|",
\* and lines without "|", without key, without value, blank or empty
FileLineTexts ==
  {<<"A", "|", "2">>, <<"A", "|", "3">>, <<" ", "A", " ", "|", " ", "2", " ">>,
   <<"B", "|", "4">>, <<"A", "|", "2", "|", "3">>, <<"A", "2">>, <<"|", "2">>,
   <<"A", "|">>, <<"A", "|", " ">>, <<" ">>, <<>>}

MaxLines == 3

StoreTexts ==
  {[exists |-> FALSE, lines |-> <<>>]}
  \cup {[exists |-> TRUE, lines |-> q] : q \in SeqsUpTo(FileLineTexts, MaxLines)}

InitStore ==
  /\ \/ \E store \in StoreMaps :
          call = [fn |-> "save_then_load", args |-> <<store>>, ret |-> "", done |-> FALSE]
     \/ \E f \in StoreTexts :
          call = [fn |-> "load_prev_temp_file", args |-> <<f>>, ret |-> "", done |-> FALSE]
  /\ RunOff

\* save_prev_temp_file(store) and then load_prev_temp_file()
CallSaveLoad ==
  /\ call.fn = "save_then_load" /\ ~call.done
  /\ call' = [call EXCEPT
       !.ret = load_prev_temp_text(save_prev_temp_text(call.args[1])),
       !.done = TRUE]
  /\ UNCHANGED runvars

CallLoad ==
  /\ call.fn = "load_prev_temp_file" /\ ~call.done
  /\ call' = [call EXCEPT !.ret = load_prev_temp_text(call.args[1]), !.done = TRUE]
  /\ UNCHANGED runvars

SpecStore == InitStore /\ [][CallSaveLoad \/ CallLoad]_vars

\* the store file in both of its uses: read and written by the functions
\* alone, and by a run
SpecPersist ==
  (Init \/ InitStore) /\ [][(call = Idle /\ Next) \/ CallSaveLoad \/ CallLoad]_vars

----------------------------------------------------------------------------
(* C9 *)

RainDone == call.fn = "classify_rain_mm" /\ call.done
RainArgMm == IF FloatOk(call.args[1]) THEN call.args[1].v ELSE 0

\* C9 as stated: NONE if m < 0.0001, GERIMIS if 0.0001 <= m < 1.0, RINGAN if
\* 1.0 <= m < 2.5, SEDANG if 2.5 <= m < 7.6, DERAS if m >= 7.6 (None as 0.0).
C9_AsStated ==
  RainDone =>
    call.ret = (IF RainArgMm < 1 THEN "NONE"
                ELSE IF RainArgMm < 10000 THEN "GERIMIS"
                ELSE IF RainArgMm < 25000 THEN "RINGAN"
                ELSE IF RainArgMm < 76000 THEN "SEDANG"
                ELSE "DERAS")

\* C9 amended: classify_rain_mm maps every amount m (None or an unparsable
\* value as 0.0) to NONE if m <= 0.0001, GERIMIS if 0.0001 < m < 1.0,
\* RINGAN if 1.0 <= m < 2.5, SEDANG if 2.5 <= m < 7.6, DERAS if m >= 7.6.
C9_RainCategory ==
  RainDone =>
    /\ (RainArgMm <= 1) => call.ret = "NONE"
    /\ (1 < RainArgMm /\ RainArgMm < 10000) => call.ret = "GERIMIS"
    /\ (10000 <= RainArgMm /\ RainArgMm < 25000) => call.ret = "RINGAN"
    /\ (25000 <= RainArgMm /\ RainArgMm < 76000) => call.ret = "SEDANG"
    /\ (RainArgMm >= 76000) => call.ret = "DERAS"

C9_Witness ==
  RainDone /\ call.args[1] = Num(1) /\ call.ret = "NONE"

----------------------------------------------------------------------------
(* C8 *)

SkyDone == call.fn = "classify_sky" /\ call.done
SkyArg(i) == FloatOr0(call.args[i])
SkyRef ==
  IF SkyArg(2) >= 3000 THEN SkyArg(2)
  ELSE IF SkyArg(3) >= 3000 THEN SkyArg(3)
  ELSE IF SkyArg(4) >= 6000 THEN SkyArg(4)
  ELSE 0
SkyDaytime ==
  call.args[7].k = "num" /\ call.args[7].v \in 6..16
SkyRainLabels == {"HUJAN_GERIMIS", "HUJAN_RINGAN", "HUJAN_SEDANG", "HUJAN_DERAS"}

\* C8: classify_sky returns the HUJAN_ label of the reference rain when the
\* reference is > 0, else HUJAN_POTENSIAL if prob >= 60, else CERAH in daytime
\* with UV >= 7 and humidity < 75, else BERAWAN if 60 <= humidity <= 85 and
\* prob < 30, else MENDUNG if humidity > 75 or 30 <= prob < 60, else BERAWAN;
\* rain dominates probability, which dominates UV/humidity; with the hour
\* absent CERAH is never returned.
C8_SkyLabel ==
  SkyDone =>
    LET prob == SkyArg(1)
        hum == SkyArg(5)
        uv == SkyArg(6)
    IN /\ (SkyRef > 0 /\ SkyRef < 10000) => call.ret = "HUJAN_GERIMIS"
       /\ (SkyRef >= 10000 /\ SkyRef < 25000) => call.ret = "HUJAN_RINGAN"
       /\ (SkyRef >= 25000 /\ SkyRef < 76000) => call.ret = "HUJAN_SEDANG"
       /\ (SkyRef >= 76000) => call.ret = "HUJAN_DERAS"
       /\ (SkyRef = 0 /\ prob >= 60) => call.ret = "HUJAN_POTENSIAL"
       /\ (SkyRef = 0 /\ prob < 60) =>
            call.ret =
              (IF SkyDaytime /\ uv >= 7 /\ hum < 75 THEN "CERAH"
               ELSE IF hum >= 60 /\ hum <= 85 /\ prob < 30 THEN "BERAWAN"
               ELSE IF hum > 75 \/ (prob >= 30 /\ prob < 60) THEN "MENDUNG"
               ELSE "BERAWAN")
       /\ (call.ret \in SkyRainLabels) <=> (SkyRef > 0)
       /\ (call.args[7] = NULL) => call.ret # "CERAH"

\* rain 5.0 mm with prob 60 and a sunny daytime hour: the rain rule wins
C8_Witness ==
  /\ SkyDone
  /\ call.args[1] = Num(60) /\ call.args[2] = Num(25000)
  /\ call.args[6] = Num(7) /\ call.args[7] = Num(16)
  /\ call.ret = "HUJAN_SEDANG"

----------------------------------------------------------------------------
(* C10 *)

DevDone == call.fn = "deviation" /\ call.done

\* the rain values (in 0.01 mm) at indices t, t+1, t+2 that lie inside the series
C10_Window ==
  LET prec_arr == call.args[1]
      t == call.args[2]
      inside == {i \in t..(t + 2) :
                   i <= call.args[3] /\ i <= Len(prec_arr) /\ prec_arr[i].k = "num"}
  IN [i \in inside |-> prec_arr[i].v \div 100]

\* each member's rain sum (in 0.01 mm) over the same window
C10_MemberSums ==
  LET members == call.args[5]
      t == call.args[2]
  IN [m \in 1..Len(members) |->
        SumSeq([j \in 1..3 |->
                  IF t + j - 1 <= Len(members[m])
                  THEN members[m][t + j - 1] \div 100 ELSE 0])]

RECURSIVE C10_Sum(_, _)
C10_Sum(f, S) ==
  IF S = {} THEN 0
  ELSE LET i == CHOOSE i \in S : TRUE IN f[i] + C10_Sum(f, S \ {i})

\* population standard deviation (divisor = number of values) of the values
\* of f, compared with th (in 0.01 mm): sqrt(sum((x - mean)^2) / n) >= th
C10_PopStdGE(f, th) ==
  LET n == Cardinality(DOMAIN f)
      sq == [i \in DOMAIN f |-> f[i] * f[i]]
  IN n >= 2 /\ n * C10_Sum(sq, DOMAIN f) - C10_Sum(f, DOMAIN f) * C10_Sum(f, DOMAIN f)
                 >= th * th * n * n

C10_Level(f) ==
  IF C10_PopStdGE(f, 100) THEN "DANGER"
  ELSE IF C10_PopStdGE(f, 70) THEN "WARN"
  ELSE "NONE"

\* C10: the deterministic deviation is the population standard deviation of
\* the rain values at t, t+1, t+2 inside the series (0 with fewer than 2
\* values), the ensemble deviation that of the members' window sums (0 with
\* fewer than 2 members); each is DANGER if >= 1.0, WARN if >= 0.7 and < 1.0,
\* NONE otherwise, so one source adds an hour to at most one of the two lists;
\* the window [0, 0, 6] is DANGER.
C10_Deviation ==
  DevDone =>
    LET ensOn == call.args[4] /\ Len(call.args[5]) >= 2
        ensLevel == IF ensOn THEN C10_Level(C10_MemberSums) ELSE "NONE"
        detLevel == C10_Level(C10_Window)
    IN /\ call.ret.det = detLevel
       /\ call.ret.ens = ensLevel
       /\ call.ret.warn = (IF detLevel = "WARN" THEN 1 ELSE 0)
                          + (IF ensLevel = "WARN" THEN 1 ELSE 0)
       /\ call.ret.danger = (IF detLevel = "DANGER" THEN 1 ELSE 0)
                            + (IF ensLevel = "DANGER" THEN 1 ELSE 0)
       /\ (call.args[1] = <<Num(0), Num(0), Num(60000)>> /\ call.args[2] = 1)
            => call.ret.det = "DANGER"

C10_Witness ==
  /\ DevDone
  /\ call.args[1] = <<Num(0), Num(0), Num(60000)>> /\ call.args[2] = 1
  /\ call.args[3] = 3
  /\ call.args[4] /\ call.args[5] = <<<<0>>, <<14000>>>>
  /\ call.ret = [det |-> "DANGER", ens |-> "WARN", warn |-> 1, danger |-> 1]

----------------------------------------------------------------------------
(* C2, C3, C4, C6, C7: one hour *)

HourDone == call.fn = "hour" /\ call.done /\ call.ret.crash = "none"
HourS == call.args[1]

Rank(status) ==
  CASE status = "Aman" -> 0 [] status = "Waspada" -> 1 [] status = "Rawan" -> 2

\* C2: with Aman < Waspada < Rawan, every rule after the score-derived
\* initial status (advisory text, rain, accumulation, wind, gust) leaves the
\* status equal or higher; once Rawan it stays Rawan; the final status is never
\* lower than the initial one.
C2_OnlyUpgrades ==
  HourDone =>
    /\ \A i \in 1..5 :
         /\ Rank(call.ret.trace[i]) <= Rank(call.ret.trace[i + 1])
         /\ call.ret.trace[i] = "Rawan" => call.ret.trace[i + 1] = "Rawan"
    /\ call.ret.STATUS = call.ret.trace[6]
    /\ Rank(call.ret.trace[1]) <= Rank(call.ret.STATUS)

\* an hour already Rawan by its advisory text whose accumulation is over the
\* threshold: it stays Rawan
C2_Witness ==
  /\ HourDone
  /\ call.ret.trace[1] = "Aman" /\ call.ret.trace[2] = "Rawan"
  /\ call.args[2] >= 150000
  /\ call.ret.STATUS = "Rawan"

\* C3: the final status is Rawan iff score >= 7, or the advisory text matches
\* a keyword, or rain >= 6.0 mm, or wind >= 25, or gust >= 45; accumulation
\* alone never yields Rawan.
C3_RawanIff ==
  HourDone =>
    LET others == \/ call.ret.score >= 7
                  \/ BmkgMatches(call.args[5])
                  \/ HourS.RAINMM.v >= 60000
                  \/ HourS.ANGIN.v >= 25
                  \/ HourS.WINDGUST.v >= 45
    IN /\ (call.ret.STATUS = "Rawan") <=> others
       /\ ((call.args[2] >= 150000 \/ call.args[3] >= 300000) /\ ~others)
            => call.ret.STATUS = "Waspada"

\* wind 26 km/h with a zero score is Rawan
C3_Witness ==
  /\ HourDone
  /\ call.ret.score = 0 /\ HourS.ANGIN.v = 26 /\ HourS.WINDGUST.v = 25
  /\ HourS.RAINMM.v = 0 /\ call.args[5] = TextNone
  /\ call.ret.trace[1] = "Aman" /\ call.ret.STATUS = "Rawan"

\* C4: the final status is Aman iff score < 4, the advisory text matches no
\* keyword, rain < 2.0 mm, acc3 < 15.0 mm, acc6 < 30.0 mm, wind < 15 and
\* gust < 30.
C4_AmanIff ==
  HourDone =>
    ((call.ret.STATUS = "Aman") <=>
       /\ call.ret.score < 4
       /\ ~BmkgMatches(call.args[5])
       /\ HourS.RAINMM.v < 20000
       /\ call.args[2] < 150000
       /\ call.args[3] < 300000
       /\ HourS.ANGIN.v < 15
       /\ HourS.WINDGUST.v < 30)

C4_Witness ==
  /\ HourDone
  /\ call.ret.STATUS = "Aman" /\ call.ret.score = 3
  /\ HourS.RAINMM.v = 19999 /\ HourS.ANGIN.v = 9 /\ HourS.WINDGUST.v = 25
  /\ call.args[2] = 149999 /\ call.args[3] = 299999

\* C6: the score is the sum of +2 humidity > 80, +1 27 <= temperature <= 34,
\* +2 a prior temperature exists and prior - current >= 2, +1 10 <= wind <= 25,
\* +1 gust > 25, +2 8 <= hour <= 16 and UV >= 7, +2 prob >= 70 else +1
\* prob >= 50, +3 rain >= 1.0 else +1 rain >= 0.3; 0 <= score <= 14; a missing
\* prior temperature removes only the temp_drop contribution.
C6_ScoreNoPrior ==
  (IF HourS.LEMBAP.v > 80 THEN 2 ELSE 0)
  + (IF HourS.SUHU.v >= 27 /\ HourS.SUHU.v <= 34 THEN 1 ELSE 0)
  + (IF HourS.ANGIN.v >= 10 /\ HourS.ANGIN.v <= 25 THEN 1 ELSE 0)
  + (IF HourS.WINDGUST.v > 25 THEN 1 ELSE 0)
  + (IF call.args[6] >= 8 /\ call.args[6] <= 16 /\ HourS.UV.k = "num"
        /\ HourS.UV.v >= 7 THEN 2 ELSE 0)
  + (IF HourS.HUJAN_PROB.v >= 70 THEN 2
     ELSE IF HourS.HUJAN_PROB.v >= 50 THEN 1 ELSE 0)
  + (IF HourS.RAINMM.v >= 10000 THEN 3
     ELSE IF HourS.RAINMM.v >= 3000 THEN 1 ELSE 0)

C6_Score ==
  HourDone =>
    LET prior == call.args[4]
        drop == prior.k = "num" /\ prior.v - HourS.SUHU.v >= 2
    IN /\ call.ret.score = C6_ScoreNoPrior + (IF drop THEN 2 ELSE 0)
       /\ call.ret.score >= 0 /\ call.ret.score <= 14
       /\ (prior = NULL) => call.ret.score = C6_ScoreNoPrior
       /\ InSeq("temp_drop", call.ret.REASONS) <=> drop

\* every contribution at once: the maximum
C6_Witness ==
  HourDone /\ call.ret.score = 14 /\ call.args[4] = Num(36)

C7_Example == call.fn = "hour" /\ call.done /\ call.args = HourExampleArgs

\* C7 as stated: in the example the score is 4, the initial status Waspada,
\* none of the rain, accumulation, wind or gust rules sets the status or
\* appends its reason, and the final status is Waspada.
C7_AsStated ==
  C7_Example =>
    /\ call.ret.crash = "none" /\ call.ret.score = 4
    /\ call.ret.trace[1] = "Waspada"
    /\ \A r \in {"rainmm_rawan", "rainmm_wasp", "acc_rain", "wind_sust_danger",
                 "wind_warn", "gust_danger", "gust_warn"} :
         ~InSeq(r, call.ret.REASONS)
    /\ call.ret.STATUS = "Waspada"

\* C7 amended: in the example the score is 4 (humid, temp_ok, wind_ok), the
\* initial status is Waspada, the wind rule fires (wind 20 >= 15: it sets
\* Waspada again and appends wind_warn), none of the rain, accumulation and
\* gust rules fires, and the final status is Waspada.
C7_ExampleHour ==
  C7_Example =>
    /\ call.ret.crash = "none" /\ call.ret.score = 4
    /\ call.ret.trace = <<"Waspada", "Waspada", "Waspada", "Waspada", "Waspada",
                          "Waspada">>
    /\ call.ret.REASONS = <<"sky_mendung", "humid", "temp_ok", "wind_ok", "wind_warn">>
    /\ call.ret.STATUS = "Waspada"

C7_Witness ==
  C7_Example /\ call.ret.score = 4 /\ InSeq("wind_warn", call.ret.REASONS)

----------------------------------------------------------------------------
(* C1 *)

\* C1 as stated: for every hourly sample in which a numeric field is null or
\* unparsable the hour completes with the field read as 0.0: no error aborts
\* the run (the remaining hours and locations are processed and the store is
\* persisted at run end).
C1_AsStated == pc # "raised"

----------------------------------------------------------------------------
(* C5 *)

C5_Keywords ==
  { <<"h","u","j","a","n"," ","s","a","n","g","a","t">>,
    <<"h","u","j","a","n"," ","l","e","b","a","t">>,
    <<"k","i","l","a","t">>, <<"p","e","t","i","r">>, <<"b","a","d","a","i">>,
    <<"t","h","u","n","d","e","r">>, <<"l","i","g","h","t","n","i","n","g">> }

C5_Mentions(text) == \E kw \in C5_Keywords : Contains(Lower(text), kw)

\* the slots of the current location whose hour has been processed
C5_Processed ==
  {TIMES[i] : i \in {j \in 1..(ti - 1) : InSeq(TIMES[j], DATA.time)}}

C5_MatchAllRawan ==
  (K # NULL /\ C5_Mentions(BMK_SUM)) =>
    /\ counts[K.name].aman = 0
    /\ counts[K.name].wasp = 0
    /\ counts[K.name].rawan = Cardinality(C5_Processed)
    /\ \A t \in C5_Processed :
         InSeq(t, PERKOTA[K.name].THUNDER) /\ InSeq(t, PERKOTA[K.name].RAWAN)

C5_NoMatchStep ==
  (pc = "hours" /\ ti' = ti + 1 /\ counts' # counts /\ ~C5_Mentions(BMK_SUM)) =>
    LET TIME == TIMES[ti]
        prev == lookup_prev_temp_for(K.name, K.lat, K.lon, PREV_TEMP)
        idx == IndexOf(DATA.time, TIME)
        asis == HourAt(DATA, ensemble, idx, HourOf(TIME), prev, BMK_SUM)
        plain == HourAt(DATA, ensemble, idx, HourOf(TIME), prev, <<>>).res
        heuristic == asis.s.HUJAN_PROB.v >= 70 /\ asis.s.ANGIN.v >= 10
    IN /\ counts'[K.name] = CountsAfterHour(counts[K.name], plain)
       /\ asis.res.trace[2] = asis.res.trace[1]
       /\ Len(PERKOTA'[K.name].THUNDER)
            = Len(PERKOTA[K.name].THUNDER) + (IF heuristic THEN 1 ELSE 0)

\* C5: when the advisory text of a location contains, in any letter case, one
\* of the keywords, every processed hour of the location is Rawan (its Aman
\* and Waspada counts are 0) and is in the location's thunder-risk list; when
\* the text is empty or contains none, the hour gets the status it gets with
\* no text, the advisory rule leaves the status of the score, and the
\* thunder-risk list grows only by the probability/wind heuristic.
C5_Advisory == []C5_MatchAllRawan /\ [][C5_NoMatchStep]_vars

\* a location of quiet hours under an advisory that says "PETIR"
C5_Witness ==
  /\ pc = "locations" /\ K # NULL
  /\ BMK_SUM = TextPetir
  /\ DATA = Hourly(TIMES, [i \in 1..Len(TIMES) |-> Calm], Len(TIMES))
  /\ counts[K.name].rawan = Len(TIMES)
  /\ Len(PERKOTA[K.name].THUNDER) = Len(TIMES)

----------------------------------------------------------------------------
(* C11 *)

NoDup(q) == \A i, j \in 1..Len(q) : i # j => q[i] # q[j]

\* C11 as stated: in each per-location list of thunder-risk hours, of the
\* hours of a rain category and of waspada hours (rain/accumulation, heat/UV,
\* gust), an hour of the location appears at most once, whatever hours have
\* been processed.
C11_AsStated ==
  \A n \in DOMAIN PERKOTA :
    /\ NoDup(PERKOTA[n].THUNDER)
    /\ NoDup(PERKOTA[n].RAIN_GERIMIS) /\ NoDup(PERKOTA[n].RAIN_RINGAN)
    /\ NoDup(PERKOTA[n].RAIN_SEDANG) /\ NoDup(PERKOTA[n].RAIN_DERAS)
    /\ NoDup(PERKOTA[n].WASP_RAIN)
    /\ NoDup(PERKOTA[n].WASP_HEAT)
    /\ NoDup(PERKOTA[n].WASP_GUST)

----------------------------------------------------------------------------
(* C12 *)

C12_Total(A, t) == A.AMAN[t] + A.WASP[t] + A.RAWAN[t]

\* at the end of the run the three status counts of a slot add up to the
\* number of fetched locations whose time axis has the slot
C12_AtEnd ==
  pc = "done" =>
    \A t \in Range(TIMES) :
      C12_Total(AGG, t)
        = Cardinality({n \in DOMAIN fetched : InSeq(t, fetched[n].DATA.time)})

\* a pass of the hour loop that goes on to the next slot
C12_HourStep ==
  (pc = "hours" /\ ti' = ti + 1) =>
    LET t == TIMES[ti]
        d == <<AGG'.AMAN[t] - AGG.AMAN[t], AGG'.WASP[t] - AGG.WASP[t],
               AGG'.RAWAN[t] - AGG.RAWAN[t]>>
    IN /\ \A x \in Range(TIMES) \ {t} :
            /\ AGG'.AMAN[x] = AGG.AMAN[x]
            /\ AGG'.WASP[x] = AGG.WASP[x]
            /\ AGG'.RAWAN[x] = AGG.RAWAN[x]
       /\ IF InSeq(t, DATA.time)
          THEN d \in {<<1, 0, 0>>, <<0, 1, 0>>, <<0, 0, 1>>}
          ELSE AGG' = AGG

\* C12: at the end of a run, at every slot, AGG_AMAN + AGG_WASP + AGG_RAWAN is
\* the number of successfully fetched locations whose hourly series contains
\* the slot; every processed location-hour increments exactly one of the
\* three counts, and a slot absent from the series changes no count.
C12_StatusCounts == []C12_AtEnd /\ [][C12_HourStep]_vars

\* two locations fetched, one of them without the last slot
C12_Witness ==
  /\ pc = "done" /\ processed_count = 2
  /\ C12_Total(AGG, TIMES[Len(TIMES)]) = 1
  /\ C12_Total(AGG, TIMES[1]) = 2

----------------------------------------------------------------------------
(* C13 *)

WinDone == call.fn = "windows" /\ call.done

\* ceil(4N/5)
C13_Ceil(n) == CHOOSE k \in 0..n : 5 * k >= 4 * n /\ 5 * (k - 1) < 4 * n

\* C13: for every processed-location count N >= 1 a slot is a best safe hour
\* iff its Aman count >= ceil(0.8 * N) (the threshold of the code is that
\* ceiling for every N); with N = 0 no slot is a best safe hour.  N counts
\* the fetched locations, whether or not they have the slot.
C13_BestSafe ==
  WinDone =>
    LET T == call.args[1]
        A == call.args[2]
        n == call.args[3]
    IN \A t \in Range(T) :
         InSeq(t, call.ret.best_aman_times) <=> (n >= 1 /\ A.AMAN[t] >= C13_Ceil(n))

\* N = 5: the slot with 4 Aman, which only 4 locations have, is in; the slot
\* with 3 Aman is out
C13_Witness ==
  /\ WinDone /\ call.args[3] = 5
  /\ call.args[2].AMAN[16] = 4 /\ call.args[2].RAWAN[16] = 0
  /\ call.args[2].AMAN[17] = 3
  /\ call.ret.best_aman_times = <<16>>

----------------------------------------------------------------------------
(* C14 *)

\* the locations whose hour at slot t ended Rawan
C14_RawanAt(t) ==
  {n \in DOMAIN PERKOTA :
     \E i \in 1..Len(rows) :
       rows[i].K = n /\ rows[i].TIME = t /\ rows[i].res.STATUS = "Rawan"}

C14_Chronological(w) == \A i, j \in 1..Len(w) : i < j => w[i] < w[j]

C14_Positive(w, agg) ==
  /\ \A t \in Range(TIMES) : InSeq(t, w) <=> agg[t] > 0
  /\ Range(w) \subseteq Range(TIMES)
  /\ C14_Chronological(w)

\* C14: a slot is an 'any risky hour' iff at least two locations are Rawan at
\* the slot (one Rawan location is not enough, even when it is the only
\* location processed); a slot is in the thunder, wind-warn, wind-danger,
\* gust-warn, gust-danger, deviation-warn or deviation-danger window iff the
\* global count of that kind at the slot is > 0; every window lists its slots
\* in chronological order.
C14_Windows ==
  pc = "done" =>
    /\ \A t \in Range(TIMES) :
         InSeq(t, windows.any_rawan_times) <=> Cardinality(C14_RawanAt(t)) >= 2
    /\ Range(windows.any_rawan_times) \subseteq Range(TIMES)
    /\ C14_Chronological(windows.any_rawan_times)
    /\ C14_Chronological(windows.best_aman_times)
    /\ C14_Positive(windows.best_thunder_times, AGG.THUNDER)
    /\ C14_Positive(windows.wind_warn_times, AGG.WIND_WARN)
    /\ C14_Positive(windows.wind_danger_times, AGG.WIND_DANGER)
    /\ C14_Positive(windows.gust_warn_times, AGG.GUST_WARN)
    /\ C14_Positive(windows.gust_danger_times, AGG.GUST_DANGER)
    /\ C14_Positive(windows.dev_warn_times, AGG.DEV_WARN)
    /\ C14_Positive(windows.dev_danger_times, AGG.DEV_DANGER)

\* the first slot is Rawan in both locations, the last one in one of them only
C14_Witness ==
  /\ pc = "done" /\ processed_count = 2
  /\ Cardinality(C14_RawanAt(TIMES[1])) = 2
  /\ Cardinality(C14_RawanAt(TIMES[Len(TIMES)])) = 1
  /\ windows.any_rawan_times = <<TIMES[1]>>
  /\ windows.wind_danger_times = TIMES

----------------------------------------------------------------------------
(* C15 *)

\* the step of the location loop that passes over a location whose fetch
\* failed: the loop stays at its head with one location less to visit
C15_SkipStep ==
  (pc = "locations" /\ todo # <<>> /\ todo' = Tail(todo) /\ pc' = "locations") =>
    UNCHANGED <<processed_count, processed_locations_list, AGG, PERKOTA,
                SKY_COUNT, counts, PREV_TEMP, file, windows, fetched, rows>>

C15_Loaded == load_prev_temp_file(file)

\* a location of the run that has not been fetched left no trace
C15_NoTrace ==
  pc \in {"locations", "hours", "raised"} =>
    /\ processed_count = Cardinality(DOMAIN fetched)
    /\ Range(processed_locations_list) = DOMAIN fetched
    /\ DOMAIN PERKOTA = DOMAIN fetched /\ DOMAIN counts = DOMAIN fetched
    /\ \A i \in 1..Len(rows) : rows[i].K \in DOMAIN fetched
    /\ \A i \in 1..Len(targets) :
         targets[i].name \notin DOMAIN fetched =>
           LET k == NameKey(targets[i].name)
           IN DictHas(PREV_TEMP, k) =>
                DictHas(C15_Loaded, k) /\ DictGet(PREV_TEMP, k) = DictGet(C15_Loaded, k)

\* C15: a location whose forecast fetch fails is skipped entirely: it is not
\* counted in processed_count, is not in the processed-locations list, changes
\* no global count and no per-location list and writes nothing to the
\* previous-temperature map; everything the other locations read is as it
\* would be had the failed location not been supplied.
C15_FetchFailure == []C15_NoTrace /\ [][C15_SkipStep]_vars

\* the first location failed, the second one was processed in full
C15_Witness ==
  /\ pc = "done" /\ Len(targets) = 2
  /\ processed_count = 1
  /\ processed_locations_list = <<targets[2].name>>
  /\ Len(rows) = Len(TIMES)

----------------------------------------------------------------------------
(* C16 *)

\* what the ensemble fetch of the location could have returned instead
C16_Others ==
  {NoEnsemble, [available |-> TRUE, members |-> <<<<0, 0, 0>>, <<30000, 30000, 0>>>>]}

\* the hour the loop is at, computed with the ensemble e in place of the
\* fetched one
C16_Hour(e) ==
  HourAt(DATA, e, IndexOf(DATA.time, TIMES[ti]), HourOf(TIMES[ti]),
         lookup_prev_temp_for(K.name, K.lat, K.lon, PREV_TEMP), BMK_SUM)

C16_AtHour == pc = "hours" /\ ti <= Len(TIMES) /\ IndexOf(DATA.time, TIMES[ti]) # 0

C16_Level(dev, level) == B2N(DevFlag(dev) = level)

\* a completed hour: what it leaves behind is, apart from the share of the
\* ensemble deviation in the deviation lists, what any other ensemble leaves
C16_HourStep ==
  (C16_AtHour /\ ti' = ti + 1) =>
    \A alt \in {C16_Hour(e) : e \in C16_Others} :
      LET TIME == TIMES[ti]
          row == rows'[Len(rows')]
          after == AggAfterHour(AGG, TIME, alt.res)
      IN /\ alt.res.crash = "none"
         /\ row.res.score = alt.res.score
         /\ row.res.SKY_LABEL = alt.res.SKY_LABEL
         /\ row.res.rain_cat = alt.res.rain_cat
         /\ row.res.STATUS = alt.res.STATUS
         /\ counts' = [counts EXCEPT ![K.name] = CountsAfterHour(@, alt.res)]
         /\ AGG'.AMAN = after.AMAN /\ AGG'.WASP = after.WASP /\ AGG'.RAWAN = after.RAWAN
         /\ DevFlag(row.dev_mm) = DevFlag(alt.dev_mm)
         /\ AGG'.DEV_WARN[TIME] - C16_Level(row.dev_ens_3hr, "WARN")
              = AGG.DEV_WARN[TIME] + C16_Level(alt.dev_mm, "WARN")
         /\ AGG'.DEV_DANGER[TIME] - C16_Level(row.dev_ens_3hr, "DANGER")
              = AGG.DEV_DANGER[TIME] + C16_Level(alt.dev_mm, "DANGER")
         /\ PREV_TEMP' = DictSet(DictSet(PREV_TEMP, NameKey(K.name), StrOf(alt.s.SUHU)),
                                 LatLonKey(K.lat, K.lon), StrOf(alt.s.SUHU))

\* an hour that raises does so under every ensemble
C16_RaiseStep ==
  (C16_AtHour /\ pc' = "raised") =>
    \A e \in C16_Others : C16_Hour(e).res.crash # "none"

\* the fetch counts the location whatever the ensemble fetch returned
C16_FetchStep ==
  (pc = "locations" /\ pc' = "hours") =>
    /\ processed_count' = processed_count + 1
    /\ UNCHANGED <<AGG, PREV_TEMP, rows>>

C16_NoDev(A) ==
  [A EXCEPT !.DEV_WARN = [t \in DOMAIN @ |-> 0], !.DEV_DANGER = [t \in DOMAIN @ |-> 0]]

\* the best-safe and the any-risky window do not read the deviation counts
C16_Windows ==
  pc = "done" =>
    LET w == WindowsOf(TIMES, C16_NoDev(AGG), processed_count)
    IN /\ windows.best_aman_times = w.best_aman_times
       /\ windows.any_rawan_times = w.any_rawan_times

\* without ensemble data the ensemble deviation is 0 and flags nothing
C16_Absent ==
  \A i \in 1..Len(rows) :
    ~fetched[rows[i].K].ensemble.available =>
      /\ rows[i].dev_ens_3hr.q = 0
      /\ rows[i].res.dev_warn = C16_Level(rows[i].dev_mm, "WARN")
      /\ rows[i].res.dev_danger = C16_Level(rows[i].dev_mm, "DANGER")

\* C16: the ensemble data of a location reaches nothing but the deviation
\* flags it causes itself: with any other ensemble answer (or none) every hour
\* has the same score, sky label, rain category and final status, the same
\* Aman/Waspada/Rawan counts, the same deterministic deviation flags, and the
\* best-safe and any-risky windows are the same; without ensemble data the
\* ensemble deviation is 0 at every hour and adds no warn or danger entry.
C16_EnsembleConfined ==
  /\ [](C16_Absent /\ C16_Windows)
  /\ [][C16_HourStep /\ C16_RaiseStep /\ C16_FetchStep]_vars

\* an hour whose only deviation flag comes from the ensemble was classified
\* Aman, and an hour of the run had no ensemble data
C16_Witness ==
  /\ pc = "done"
  /\ \E i \in 1..Len(rows) :
       /\ fetched[rows[i].K].ensemble.available
       /\ DevFlag(rows[i].dev_ens_3hr) = "WARN" /\ DevFlag(rows[i].dev_mm) = "NONE"
       /\ rows[i].res.dev_warn = 1 /\ rows[i].res.STATUS = "Aman"
  /\ \E i \in 1..Len(rows) : ~fetched[rows[i].K].ensemble.available

----------------------------------------------------------------------------
(* C17 *)

\* the explicit inputs of the classification of an hour
C17_Inputs(row) ==
  <<row.s, row.HOUR, row.acc3, row.acc6, row.prev, row.text, row.dev_mm,
    row.dev_ens_3hr>>

C17_Outputs(row) ==
  <<row.res.rain_cat, row.res.SKY_LABEL, row.res.score, row.res.REASONS,
    row.res.STATUS>>

----------------------------------------------------------------------------
(* C18 *)

LookupDone == call.fn = "lookup_prev_temp_for" /\ call.done

C18_NotBlank(c) == c # " "

\* the name without the blanks around it (the names looked up have none inside)
C18_Name == SelectSeq(call.args[1], C18_NotBlank)

C18_Map == call.args[4]

\* the items of the map under the exact name, under the coordinates printed
\* with four decimals, and under a name equal to the name when case is ignored
C18_Exact == {i \in 1..Len(C18_Map) : C18_Map[i].key = NameKey(C18_Name)}

C18_Coord ==
  {i \in 1..Len(C18_Map) :
     /\ C18_Map[i].key.kind = "latlon"
     /\ C18_Map[i].key.lat = Round4(call.args[2])
     /\ C18_Map[i].key.lon = Round4(call.args[3])}

C18_NoCase ==
  {i \in 1..Len(C18_Map) :
     /\ C18_Map[i].key.kind = "name"
     /\ Lower(C18_Map[i].key.name) = Lower(C18_Name)}

\* C18: lookup_prev_temp_for returns the value under the exact stripped name
\* if that key exists; otherwise the value under the "lat,lon" key with four
\* decimals if that key exists; otherwise the value of a key equal to the name
\* ignoring case if one exists; otherwise no value. Of several such keys with
\* different values the earlier in this order wins.
C18_LookupOrder ==
  LookupDone =>
    IF C18_Exact # {} THEN \E i \in C18_Exact : call.ret = C18_Map[i].val
    ELSE IF C18_Coord # {} THEN \E i \in C18_Coord : call.ret = C18_Map[i].val
    ELSE IF C18_NoCase # {} THEN \E i \in C18_NoCase : call.ret = C18_Map[i].val
    ELSE call.ret = NULL

\* a padded name looked up in a map that holds, in this order, a case variant,
\* the coordinates and the exact name, each with its own value
C18_Witness ==
  /\ LookupDone
  /\ call.args[1] # C18_Name
  /\ Len(C18_Map) = 3
  /\ C18_NoCase = {1, 3} /\ C18_Coord = {2} /\ C18_Exact = {3}
  /\ call.ret = C18_Map[3].val
  /\ call.ret # C18_Map[1].val /\ call.ret # C18_Map[2].val

----------------------------------------------------------------------------
(* C19 *)

\* the location a row belongs to
C19_Place(row) == CHOOSE loc \in Range(targets) : loc.name = row.K

\* the reading the store held for the location when the run started
C19_Stored(row) ==
  lookup_prev_temp_for(C19_Place(row).name, C19_Place(row).lat, C19_Place(row).lon,
                       load_prev_temp_file(file))

\* C19 as stated: at every hour of a location, temp_drop is scored exactly
\* when the reading persisted for the location by the previous run (the value
\* loaded from the store at the start of the run) exceeds the temperature of
\* the hour by SCORE_TEMP_DROP or more.
C19_AsStated ==
  pc \in {"locations", "hours", "raised"} =>
    \A i \in 1..Len(rows) :
      InSeq("temp_drop", rows[i].res.REASONS)
        <=> /\ C19_Stored(rows[i]) # NULL
            /\ FloatOk(C19_Stored(rows[i]))
            /\ C19_Stored(rows[i]).v - rows[i].s.SUHU.v >= SCORE_TEMP_DROP

----------------------------------------------------------------------------
(* C20 *)

C20_Place(row) == CHOOSE loc \in Range(targets) : loc.name = row.K

\* the rows of the same location before row i
C20_Earlier(i) == {j \in 1..(i - 1) : rows[j].K = rows[i].K}

\* the prior temperature hour i reads when its location is the first of the
\* processing order: the stored reading at the location's first hour, then
\* the location's own latest temperature
C20_OwnPrev(i) ==
  IF C20_Earlier(i) = {}
  THEN lookup_prev_temp_for(C20_Place(rows[i]).name, C20_Place(rows[i]).lat,
                            C20_Place(rows[i]).lon, load_prev_temp_file(file))
  ELSE StrOf(rows[CHOOSE j \in C20_Earlier(i) : \A k \in C20_Earlier(i) : k <= j].s.SUHU)

\* C20 as stated: with the fetched data, the advisory texts and the initial
\* store fixed, the status of every hour of a location is the same in every
\* processing order, so at any place of the order it is the status the hour
\* has when its location is processed first - also for locations that share
\* their coordinates rounded to 4 decimals or differ in letter case only.
C20_AsStated ==
  pc \in {"locations", "hours", "raised"} =>
    \A i \in 1..Len(rows) :
      rows[i].res.STATUS =
        HourResult(rows[i].s, rows[i].acc3, rows[i].acc6, rows[i].dev_mm,
                   rows[i].dev_ens_3hr, C20_OwnPrev(i), rows[i].text,
                   rows[i].HOUR).STATUS

----------------------------------------------------------------------------
(* C21 *)

SaveLoadDone == call.fn = "save_then_load" /\ call.done

C21_Saved == call.args[1]

\* a text without the blanks around it (the keys saved have at most one
\* blank inside, the values none)
C21_Stripped(text) ==
  IF Len(text) > 0 /\ text[1] = " " THEN SubSeq(text, 2, Len(text)) ELSE text

\* the last item saved under a key that strips to k
C21_LastOf(k) ==
  CHOOSE j \in 1..Len(C21_Saved) :
    /\ C21_Stripped(C21_Saved[j].key) = k
    /\ \A i \in (j + 1)..Len(C21_Saved) : C21_Stripped(C21_Saved[i].key) # k

\* C21: save_prev_temp_file followed by load_prev_temp_file returns the map
\* that was saved, up to the stripping of blanks around keys and values: the
\* keys loaded are the stripped keys saved, each once, with the value saved
\* under it; a map whose keys are stripped already comes back unchanged.
C21_RoundTrip ==
  SaveLoadDone =>
    /\ \A i, j \in 1..Len(call.ret) : call.ret[i].key = call.ret[j].key => i = j
    /\ {call.ret[i].key : i \in 1..Len(call.ret)}
         = {C21_Stripped(C21_Saved[j].key) : j \in 1..Len(C21_Saved)}
    /\ \A i \in 1..Len(call.ret) :
         call.ret[i].val = C21_Saved[C21_LastOf(call.ret[i].key)].val
    /\ (\A j \in 1..Len(C21_Saved) : C21_Stripped(C21_Saved[j].key) = C21_Saved[j].key)
         => call.ret = C21_Saved

\* a map with a name, a name with a blank inside and a coordinate key, with
\* different values, comes back as it was saved
C21_Witness ==
  /\ SaveLoadDone
  /\ Len(C21_Saved) = 3
  /\ C21_Saved[1].key = <<"-", "6", ",", "1">>
  /\ C21_Saved[2].key = <<"A", " ", "b">>
  /\ C21_Saved[3].key = <<"a">>
  /\ C21_Saved[1].val # C21_Saved[2].val
  /\ call.ret = C21_Saved

----------------------------------------------------------------------------
(* C22 *)

\* the processed hours of location n whose final status is status
C22_Hours(n, status) ==
  Cardinality({i \in 1..Len(rows) : rows[i].K = n /\ rows[i].res.STATUS = status})

\* C22 as stated: in the structured summary of a location, the Aman-hours
\* count and the Rawan-hours count are the numbers of the location's processed
\* hours whose final status is Aman, respectively Rawan.
C22_AsStated ==
  pc = "done" =>
    \A n \in DOMAIN per_loc_struct :
      /\ per_loc_struct[n].hours_aman_count = C22_Hours(n, "Aman")
      /\ per_loc_struct[n].hours_rawan_count = C22_Hours(n, "Rawan")

----------------------------------------------------------------------------
(* C23 *)

RecordDone == call.fn = "record_hour" /\ call.done

C23_Det == DevFlag(call.args[2])
C23_Ens == DevFlag(call.args[3])
C23_Slot == WinSlots[1]

\* what the hour left in the global count and in the location's list of a level
C23_Count(level) ==
  IF level = "WARN" THEN call.ret.AGG.DEV_WARN[C23_Slot]
  ELSE call.ret.AGG.DEV_DANGER[C23_Slot]

C23_List(level) == IF level = "WARN" THEN call.ret.L.DEV_WARN ELSE call.ret.L.DEV_DANGER

C23_Other(level) == IF level = "WARN" THEN "DANGER" ELSE "WARN"

\* C23: when the deterministic and the ensemble deviation of one hour reach
\* the same level, the global count of that level at the slot grows by 2 for
\* the single location and the hour is appended twice to the location's list
\* of that level; when they reach different levels the hour is recorded once
\* in the warn list and once in the danger list.
C23_CountedTwice ==
  RecordDone =>
    /\ \A level \in {"WARN", "DANGER"} :
         (C23_Det = level /\ C23_Ens = level) =>
           /\ C23_Count(level) = 2
           /\ C23_List(level) = <<C23_Slot, C23_Slot>>
           /\ C23_Count(C23_Other(level)) = 0
           /\ C23_List(C23_Other(level)) = <<>>
    /\ ({C23_Det, C23_Ens} = {"WARN", "DANGER"}) =>
         /\ C23_Count("WARN") = 1 /\ C23_Count("DANGER") = 1
         /\ C23_List("WARN") = <<C23_Slot>> /\ C23_List("DANGER") = <<C23_Slot>>

\* one location, one hour, both deviations WARN: the slot's warn count is 2,
\* above the number of locations processed
C23_Witness ==
  /\ RecordDone
  /\ C23_Det = "WARN" /\ C23_Ens = "WARN"
  /\ call.ret.AGG.DEV_WARN[C23_Slot] = 2
  /\ call.ret.AGG.AMAN[C23_Slot] + call.ret.AGG.WASP[C23_Slot]
       + call.ret.AGG.RAWAN[C23_Slot] = 1

----------------------------------------------------------------------------
(* C24 *)

\* the rows of a set of locations, and the temperature of the last of them
C24_RowsOf(names) == {i \in 1..Len(rows) : rows[i].K \in names}

C24_LastTemp(names) ==
  StrOf(rows[CHOOSE i \in C24_RowsOf(names) : \A j \in C24_RowsOf(names) : j <= i].s.SUHU)

\* the locations of the run that write the key k
C24_Writers(k) ==
  {targets[i].name : i \in {j \in 1..Len(targets) :
      k \in {NameKey(targets[j].name), LatLonKey(targets[j].lat, targets[j].lon)}}}

C24_Keys(loc) == {NameKey(loc.name), LatLonKey(loc.lat, loc.lon)}

\* C24 as stated: when a run completes, for every location with at least one
\* processed slot both of its keys hold the temperature of its last processed
\* slot.
C24_AsStated ==
  pc = "done" =>
    \A i \in 1..Len(targets) :
      C24_RowsOf({targets[i].name}) # {} =>
        \A k \in C24_Keys(targets[i]) :
          DictHas(PREV_TEMP, k)
          /\ DictGet(PREV_TEMP, k) = C24_LastTemp({targets[i].name})

\* when a run completes: a key written in the run holds the temperature of the
\* last processed slot of the locations that write it
C24_AtEnd ==
  pc = "done" =>
    \A i \in 1..Len(targets) :
      C24_RowsOf({targets[i].name}) # {} =>
        \A k \in C24_Keys(targets[i]) :
          DictHas(PREV_TEMP, k)
          /\ DictGet(PREV_TEMP, k) = C24_LastTemp(C24_Writers(k))

\* during the run, a key that no processed location writes is a loaded key
\* with its loaded value
C24_Kept ==
  pc \in {"locations", "hours"} =>
    \A x \in 1..Len(PREV_TEMP) :
      C24_RowsOf(C24_Writers(PREV_TEMP[x].key)) = {} =>
        /\ DictHas(load_prev_temp_file(file), PREV_TEMP[x].key)
        /\ DictGet(load_prev_temp_file(file), PREV_TEMP[x].key) = PREV_TEMP[x].val

\* the map is loaded by the first step of the run, then changed only by a
\* completed hour, which sets both keys of its location to its temperature
\* and no other key; the file is written only after the last location, with
\* the map as it then is
C24_Step ==
  /\ (pc = "start" /\ pc' # "start") => PREV_TEMP' = load_prev_temp_file(file)
  /\ (pc # "start" /\ pc' # "start" /\ PREV_TEMP' # PREV_TEMP) =>
       /\ pc = "hours" /\ Len(rows') = Len(rows) + 1
       /\ \A k \in C24_Keys(K) :
            DictHas(PREV_TEMP', k) /\ DictGet(PREV_TEMP', k) = StrOf(rows'[Len(rows')].s.SUHU)
       /\ \A x \in 1..Len(PREV_TEMP) :
            PREV_TEMP[x].key \notin C24_Keys(K) => PREV_TEMP'[x] = PREV_TEMP[x]
       /\ \A x \in 1..Len(PREV_TEMP') : x > Len(PREV_TEMP) => PREV_TEMP'[x].key \in C24_Keys(K)
  /\ (pc = "hours" /\ Len(rows') = Len(rows) + 1) =>
       \A k \in C24_Keys(K) :
         DictHas(PREV_TEMP', k) /\ DictGet(PREV_TEMP', k) = StrOf(rows'[Len(rows')].s.SUHU)
  /\ (file' # file) =>
       /\ pc = "locations" /\ todo = <<>> /\ pc' = "done"
       /\ file' = save_prev_temp_file(PREV_TEMP)

\* C24, amended: the map is loaded once at the start of run_once; after each
\* processed hour both keys of the location are overwritten with that hour's
\* temperature; when a run completes, each key written holds the temperature
\* of the last processed slot among the locations that write it (the
\* location's own last slot unless a later location has the same rounded
\* coordinates), keys not written keep their loaded values, and the map is
\* written to the file once, after all locations.
C24_Lifecycle == [](C24_AtEnd /\ C24_Kept) /\ [][C24_Step]_vars

\* two locations with the same rounded coordinates and different last
\* temperatures, a loaded key that no location writes, and the file rewritten
C24_Witness ==
  /\ pc = "done"
  /\ Len(targets) = 2
  /\ LatLonKey(targets[1].lat, targets[1].lon) = LatLonKey(targets[2].lat, targets[2].lon)
  /\ C24_RowsOf({targets[1].name}) # {} /\ C24_RowsOf({targets[2].name}) # {}
  /\ C24_LastTemp({targets[1].name}) # C24_LastTemp({targets[2].name})
  /\ DictGet(PREV_TEMP, NameKey(targets[1].name)) = C24_LastTemp({targets[1].name})
  /\ DictGet(PREV_TEMP, LatLonKey(targets[1].lat, targets[1].lon))
       = C24_LastTemp({targets[2].name})
  /\ DictHas(PREV_TEMP, NameKey(Lower(Depok.name)))
  /\ file = save_prev_temp_file(PREV_TEMP)

----------------------------------------------------------------------------
(* C25 *)

LoadDone == call.fn = "load_prev_temp_file" /\ call.done

C25_Lines == call.args[1].lines

C25_NotBlank(c) == c # " "

\* the position of the first "|" of a line, 0 without one
C25_Bar(line) ==
  IF \E i \in 1..Len(line) : line[i] = "|"
  THEN CHOOSE i \in 1..Len(line) : line[i] = "|" /\ \A j \in 1..(i - 1) : line[j] # "|"
  ELSE 0

\* key and value of a line: the text before and after the first "|" without
\* blanks (the lines read have no blank inside a key or a value)
C25_Key(line) == SelectSeq(SubSeq(line, 1, C25_Bar(line) - 1), C25_NotBlank)
C25_Val(line) == SelectSeq(SubSeq(line, C25_Bar(line) + 1, Len(line)), C25_NotBlank)

C25_WellFormed(line) ==
  C25_Bar(line) # 0 /\ C25_Key(line) # <<>> /\ C25_Val(line) # <<>>

\* the well-formed lines of the file that carry key k
C25_With(k) ==
  {i \in 1..Len(C25_Lines) : C25_WellFormed(C25_Lines[i]) /\ C25_Key(C25_Lines[i]) = k}

\* load_prev_temp_file returns a map (it never raises): empty for a missing
\* file; otherwise its keys are the keys of the well-formed lines, each once,
\* with the value of the last well-formed line of the key
C25_Load ==
  LoadDone =>
    IF ~call.args[1].exists THEN call.ret = <<>>
    ELSE
      /\ \A i, j \in 1..Len(call.ret) : call.ret[i].key = call.ret[j].key => i = j
      /\ {call.ret[i].key : i \in 1..Len(call.ret)}
           = {C25_Key(C25_Lines[i]) : i \in {j \in 1..Len(C25_Lines) :
                                               C25_WellFormed(C25_Lines[j])}}
      /\ \A i \in 1..Len(call.ret) :
           LET last == CHOOSE x \in C25_With(call.ret[i].key) :
                         \A y \in C25_With(call.ret[i].key) : y <= x
           IN call.ret[i].val = C25_Val(C25_Lines[last])

\* the end of a run: whether the write succeeded or failed, the run goes on
\* to its summary with the same results and aggregates
C25_SaveStep ==
  (pc = "locations" /\ pc' = "done") =>
    /\ file' \in {file, save_prev_temp_file(PREV_TEMP)}
    /\ UNCHANGED <<AGG, PERKOTA, SKY_COUNT, counts, rows, processed_count, PREV_TEMP>>
    /\ windows' = WindowsOf(TIMES, AGG, processed_count)
    /\ DOMAIN per_loc_struct' = Range(processed_locations_list)
    /\ \A n \in DOMAIN per_loc_struct' :
         per_loc_struct'[n] = LocStruct(PERKOTA[n], windows', TIMES)

\* C25: load_prev_temp_file never fails: a missing file gives an empty map; a
\* line without "|", with an empty key or an empty value is skipped while the
\* well-formed lines of the file are loaded (split at the first "|", a later
\* line of a key overriding an earlier one). A failed save_prev_temp_file is
\* passed over and changes neither results nor aggregates of the run.
C25_BestEffort == []C25_Load /\ [][C25_SaveStep]_vars

\* a file whose middle line has no "|": the lines around it are loaded, the
\* later one overriding the earlier
C25_Witness ==
  /\ LoadDone
  /\ C25_Lines = <<<<"A", "|", "2">>, <<"A", "2">>, <<"A", "|", "2", "|", "3">>>>
  /\ call.ret = <<[key |-> <<"A">>, val |-> <<"2", "|", "3">>]>>

----------------------------------------------------------------------------
(* C26 *)

\* the slots that start at the hour of the execution under way
C26_SlotsNow == build_times_list(clock)

\* C26 as stated: every execution of run_once, the later executions of daemon
\* mode included, classifies the slots that start at the current hour of that
\* execution, in chronological order: the hours it has classified are slots
\* of that list and its aggregates are kept per slot of that list.
C26_AsStated ==
  pc \in {"locations", "hours", "done"} =>
    /\ \A i \in 1..Len(rows) : InSeq(rows[i].TIME, C26_SlotsNow)
    /\ DOMAIN AGG.AMAN = Range(C26_SlotsNow)

----------------------------------------------------------------------------
(* C27 *)

\* the number of locations processed for slot t
C27_Processed(t) == AGG.AMAN[t] + AGG.WASP[t] + AGG.RAWAN[t]

\* C27 as stated: at every slot the thunder-risk count is at most the number
\* of locations processed for the slot; a location adds at most 1 to it, also
\* when the advisory-text rule and the heuristic (probability >= 70 and wind
\* >= 10) both apply to the hour.
C27_AsStated ==
  pc \in {"locations", "hours", "done"} =>
    \A t \in DOMAIN AGG.THUNDER : AGG.THUNDER[t] <= C27_Processed(t)

----------------------------------------------------------------------------
(* C28 *)

C28_Rain(t) ==
  AGG.RAIN_GERIMIS[t] + AGG.RAIN_RINGAN[t] + AGG.RAIN_SEDANG[t] + AGG.RAIN_DERAS[t]

C28_Windy(r) ==
  \/ r.s.ANGIN.k = "num" /\ r.s.ANGIN.v >= 15
  \/ r.s.WINDGUST.k = "num" /\ r.s.WINDGUST.v >= 30

\* C28: after any sequence of processed location-hours, at every slot: the
\* wind-danger count is at most the wind-warn count, the gust-danger count at
\* most the gust-warn count, each of the two danger counts at most the Rawan
\* count, and the four rain-category counts together at most Aman + Waspada +
\* Rawan; and a location-hour with wind >= 15 or gust >= 30 is never Aman.
C28_Counts ==
  pc \in {"locations", "hours", "done"} =>
    /\ \A t \in DOMAIN AGG.AMAN :
         /\ AGG.WIND_DANGER[t] <= AGG.WIND_WARN[t]
         /\ AGG.GUST_DANGER[t] <= AGG.GUST_WARN[t]
         /\ AGG.WIND_DANGER[t] <= AGG.RAWAN[t]
         /\ AGG.GUST_DANGER[t] <= AGG.RAWAN[t]
         /\ C28_Rain(t) <= AGG.AMAN[t] + AGG.WASP[t] + AGG.RAWAN[t]
    /\ \A i \in 1..Len(rows) : C28_Windy(rows[i]) => rows[i].res.STATUS # "Aman"

\* a finished run of two locations: at the first slot one has a storm hour and
\* the other wind at the warning level, at the second the other has a gust at
\* the warning level
C28_Witness ==
  /\ pc = "done"
  /\ \E t \in DOMAIN AGG.AMAN :
       /\ AGG.WIND_DANGER[t] = 1 /\ AGG.WIND_WARN[t] = 2
       /\ AGG.GUST_DANGER[t] = 1 /\ AGG.RAWAN[t] = 1 /\ AGG.WASP[t] = 1
       /\ C28_Rain(t) = 1
  /\ \E t \in DOMAIN AGG.AMAN : AGG.GUST_WARN[t] = 1 /\ AGG.GUST_DANGER[t] = 0
  /\ \E i \in 1..Len(rows) :
       /\ rows[i].s.ANGIN = Num(15) /\ rows[i].s.WINDGUST = Num(8)
       /\ rows[i].res.STATUS = "Waspada"

----------------------------------------------------------------------------
(* C29 *)

C29_HourDone == call.fn = "hour" /\ call.done /\ call.ret.crash = "none"

\* the rain category a HUJAN_ label of intensity names
C29_Named(label) ==
  CASE label = "HUJAN_GERIMIS" -> "GERIMIS"
    [] label = "HUJAN_RINGAN" -> "RINGAN"
    [] label = "HUJAN_SEDANG" -> "SEDANG"
    [] label = "HUJAN_DERAS" -> "DERAS"
    [] OTHER -> "none"

\* C29 as stated: for every hour, whatever the current rain and the two
\* accumulations, the sky label is HUJAN_GERIMIS, HUJAN_RINGAN, HUJAN_SEDANG or
\* HUJAN_DERAS only if the rain category of the hour is GERIMIS, RINGAN,
\* SEDANG or DERAS respectively.
C29_AsStated ==
  C29_HourDone =>
    (C29_Named(call.ret.SKY_LABEL) # "none"
       => call.ret.rain_cat = C29_Named(call.ret.SKY_LABEL))

----------------------------------------------------------------------------
(* C30 *)

\* the list tells the date and the hour of slot TIME
C30_Identifies(list, TIME) ==
  /\ InSeq([kind |-> "date", v |-> TIME \div 24], list)
  /\ InSeq([kind |-> "clock", v |-> TIME % 24], list)

\* list has one entry per hour of the accumulator acc, and tells the date and
\* the hour of each of them
C30_OnePerHour(list, acc) ==
  /\ Len(list) = Len(acc)
  /\ \A i \in 1..Len(acc) : C30_Identifies(list, acc[i])

\* C30 as stated: in the per-location summary built at the end of run_once,
\* each time-list holds exactly one entry per hour recorded in the
\* corresponding accumulator of the location, each entry identifying the date
\* and the hour of the slot; rawan_times has as many entries as the location
\* has Rawan hours.
C30_AsStated ==
  pc = "done" =>
    \A n \in DOMAIN per_loc_struct :
      LET S == per_loc_struct[n]
          L == PERKOTA[n]
      IN /\ C30_OnePerHour(S.thunder_times, L.THUNDER)
         /\ C30_OnePerHour(S.wasp_rain_times, L.WASP_RAIN)
         /\ C30_OnePerHour(S.wasp_heat_times, L.WASP_HEAT)
         /\ C30_OnePerHour(S.wasp_gust_times, L.WASP_GUST)
         /\ C30_OnePerHour(S.rawan_times, L.RAWAN)
         /\ C30_OnePerHour(S.dev_times, L.DEV_WARN \o L.DEV_DANGER)
         /\ Len(S.rawan_times)
              = Cardinality({i \in 1..Len(rows) :
                               rows[i].K = n /\ rows[i].res.STATUS = "Rawan"})

====
